---- MODULE Spec2Model ----
(***************************************************************************)
(* Model of LaddooHunt.py: the generation loop, the worker pool, the       *)
(* checkpoint store (save_checkpoint / load_checkpoint), the auto-save     *)
(* thread and the signal handler.                                          *)
(***************************************************************************)
EXTENDS Integers, Sequences, FiniteSets, TLC

(* ------------------------------------------------------------------ *)
(* Bounds of the model                                                 *)
(* ------------------------------------------------------------------ *)
\* number of distinct candidate codes generate_random_code can return
NumCodes == 2
\* number of worker threads (MAX_WORKERS of the run)
NumWorkers == 2

Codes == 1..NumCodes
Workers == 1..NumWorkers

(* ------------------------------------------------------------------ *)
(* Files: a file is absent, or holds a sequence of JSON tokens          *)
(* ------------------------------------------------------------------ *)
CHECKPOINT_FILE == "checkpoint.json"

\* one token of a JSON text: a key (or bracket) with its list / number value
Tok(k, s, n) == [k |-> k, s |-> s, n |-> n]
Bracket(k) == Tok(k, <<>>, 0)

Absent == [exists |-> FALSE, text |-> <<>>]
FileOf(text) == [exists |-> TRUE, text |-> text]

\* list(processed): the elements of the set, each once (here in ascending order)
RECURSIVE ListOf(_)
ListOf(S) ==
    IF S = {} THEN <<>>
    ELSE LET m == CHOOSE x \in S : \A y \in S : x <= y IN <<m>> \o ListOf(S \ {m})

\* set(list)
SetOf(l) == { l[i] : i \in 1..Len(l) }

\* json.dump(checkpoint_data, f) for checkpoint_data = {"codes", "counter", "timestamp"}
JsonDump(codeList, counter_value) ==
    << Bracket("{"), Tok("codes", codeList, 0), Tok("counter", <<>>, counter_value),
       Tok("timestamp", <<>>, 0), Bracket("}") >>

\* json.load(f): the parsed value, or a parse error
JsonKeys == {"codes", "counter", "timestamp", "processed_codes", "processed_count"}
JsonLoad(text) ==
    IF Len(text) >= 2 /\ text[1].k = "{" /\ text[Len(text)].k = "}"
          /\ \A i \in 2..(Len(text) - 1) : text[i].k \in JsonKeys
    THEN [err |-> FALSE, isdict |-> TRUE, items |-> SubSeq(text, 2, Len(text) - 1)]
    ELSE IF Len(text) = 2 /\ text[1].k = "[" /\ text[2].k = "]"
    THEN [err |-> FALSE, isdict |-> FALSE, items |-> <<>>]
    ELSE [err |-> TRUE, isdict |-> FALSE, items |-> <<>>]

\* dict.get(key, default) on the parsed items (the last occurrence of a key wins)
HasKey(items, key) == \E i \in 1..Len(items) : items[i].k = key
Item(items, key) ==
    items[CHOOSE i \in 1..Len(items) :
            items[i].k = key /\ \A j \in (i + 1)..Len(items) : items[j].k # key]
GetList(items, key) == IF HasKey(items, key) THEN Item(items, key).s ELSE <<>>
GetNum(items, key) == IF HasKey(items, key) THEN Item(items, key).n ELSE 0

\* the body of load_checkpoint's try block: raised = an exception left the block
LoadResult(raised, codes, count) == [raised |-> raised, codes |-> codes, count |-> count]
\* a load that reads the keys "codes" and "counter" only
LoadBodyNewOnly(file) ==
    IF ~file.exists THEN LoadResult(FALSE, {}, 0)
    ELSE LET data == JsonLoad(file.text) IN
         IF data.err \/ ~data.isdict THEN LoadResult(TRUE, {}, 0)
         ELSE LoadResult(FALSE, SetOf(GetList(data.items, "codes")),
                         GetNum(data.items, "counter"))

LoadBody(file) ==
    IF ~file.exists THEN LoadResult(FALSE, {}, 0)
    ELSE LET data == JsonLoad(file.text) IN
         IF data.err \/ ~data.isdict THEN LoadResult(TRUE, {}, 0)
         ELSE LET newCodes == GetList(data.items, "codes")
                  newCount == GetNum(data.items, "counter")
              IN LoadResult(FALSE,
                     SetOf(IF newCodes # <<>> THEN newCodes
                           ELSE GetList(data.items, "processed_codes")),
                     IF newCount # 0 THEN newCount
                     ELSE GetNum(data.items, "processed_count"))

\* a load_checkpoint without its except clause
load_checkpoint_unguarded(file) == LoadBody(file)

\* load_checkpoint(): the except clause turns every exception into (set(), 0)
load_checkpoint(file) ==
    IF LoadBody(file).raised THEN LoadResult(FALSE, {}, 0) ELSE LoadBody(file)

(* ------------------------------------------------------------------ *)
(* The probe: is_valid_url, check_url_curl, check_url_requests          *)
(* ------------------------------------------------------------------ *)
LADDOO_PATTERNS == {"iplladdoo2025", "socialTitle=Psst", "Laddoo+for+you"}

\* a URL is a sequence of pieces of text; a pattern is the pieces it is made of
PatternText(pattern) ==
    CASE pattern = "iplladdoo2025" -> << "iplladdoo2025" >>
      [] pattern = "socialTitle=Psst" -> << "socialTitle", "=Psst" >>
      [] pattern = "Laddoo+for+you" -> << "Laddoo+for+you" >>

\* the pieces a resolved URL is made of here: those of the patterns, and "=Psst"
\* percent-encoded once and twice
UrlPieces ==
    { "iplladdoo2025", "socialTitle", "=Psst", "%3DPsst", "%253DPsst",
      "Laddoo+for+you" }

\* urllib.parse.unquote on one piece: each %XX escape is replaced by its character
UnquotePiece(piece) ==
    CASE piece = "%3DPsst" -> "=Psst"
      [] piece = "%253DPsst" -> "%3DPsst"
      [] OTHER -> piece

\* a decoding that is applied twice
unquote_twice(url) ==
    [i \in 1..Len(url) |-> UnquotePiece(UnquotePiece(url[i]))]

\* decoded_url = unquote(final_url)
RECURSIVE unquote(_)
unquote(url) ==
    IF url = << >> THEN << >>
    ELSE << UnquotePiece(Head(url)) >> \o unquote(Tail(url))

\* pattern in url
Contains(url, text) ==
    \E i \in 0..(Len(url) - Len(text)) : SubSeq(url, i + 1, i + Len(text)) = text

\* the loop over LADDOO_PATTERNS: in_raw or in_decoded
found_patterns(final_url) ==
    { pattern \in LADDOO_PATTERNS :
        \/ Contains(final_url, PatternText(pattern))
        \/ Contains(unquote(final_url), PatternText(pattern)) }

LADDOO_TYPES ==
    << "Steady", "Sparky", "Zen", "Elastic", "Boom", "Dash", "Bazooka", "Dizzy",
       "Sunny", "Ninja", "Wally" >>

\* the pieces a URL passed to extract_laddoo_type is made of here: three labels
\* in two spellings each, and a piece that is no label
TypePieces == { "Steady", "steady", "Zen", "ZEN", "Wally", "wALLY", "Psst" }

\* str.lower() on one piece
LowerPiece(piece) ==
    CASE piece = "Steady" -> "steady"
      [] piece = "Sparky" -> "sparky"
      [] piece \in {"Zen", "ZEN"} -> "zen"
      [] piece = "Elastic" -> "elastic"
      [] piece = "Boom" -> "boom"
      [] piece = "Dash" -> "dash"
      [] piece = "Bazooka" -> "bazooka"
      [] piece = "Dizzy" -> "dizzy"
      [] piece = "Sunny" -> "sunny"
      [] piece = "Ninja" -> "ninja"
      [] piece \in {"Wally", "wALLY"} -> "wally"
      [] piece = "Psst" -> "psst"
      [] OTHER -> piece

\* url.lower()
lower(url) == [i \in 1..Len(url) |-> LowerPiece(url[i])]

\* an extraction that returns the label that occurs first in the url
extract_laddoo_type_by_position(url) ==
    LET hits == { i \in 1..Len(url) :
                    \E k \in 1..Len(LADDOO_TYPES) :
                       LowerPiece(LADDOO_TYPES[k]) = LowerPiece(url[i]) }
    IN  IF hits = {} THEN "Other"
        ELSE LET i == CHOOSE j \in hits : \A h \in hits : j <= h
                 k == CHOOSE n \in 1..Len(LADDOO_TYPES) :
                         LowerPiece(LADDOO_TYPES[n]) = LowerPiece(url[i])
             IN  LADDOO_TYPES[k]

\* for laddoo_type in LADDOO_TYPES: if laddoo_type.lower() in url.lower(): return
RECURSIVE ScanTypes(_, _)
ScanTypes(url, k) ==
    IF k > Len(LADDOO_TYPES) THEN "Other"
    ELSE IF Contains(lower(url), << LowerPiece(LADDOO_TYPES[k]) >>)
         THEN LADDOO_TYPES[k]
         ELSE ScanTypes(url, k + 1)

extract_laddoo_type(url) == ScanTypes(url, 1)

\* what the status check can meet: the request times out, the connection fails,
\* the status text is no integer, or a status arrives
StatusReplies ==
    { [kind |-> "timeout", status |-> 0], [kind |-> "refused", status |-> 0],
      [kind |-> "notint", status |-> 0] }
    \cup { [kind |-> "ok", status |-> st] : st \in {199, 200, 399, 400} }

\* what the redirect-following request can meet, with the patterns that occur
\* in the raw or decoded form of the last URL of the redirect chain
UrlReplies ==
    { [kind |-> k, found |-> f, laddoo_type |-> "Other"] :
        k \in {"timeout", "refused", "ok"},
        f \in {{}, {"iplladdoo2025"}, LADDOO_PATTERNS} }

\* is_valid_url: the status it reads, or the exception of its try block.
\* curl: subprocess.run raises on a timeout only; after a failed connection
\* curl prints the status 000; int() raises on text that is no integer.
\* requests: requests.head raises on a timeout and on a failed connection
StatusRead(use_curl, r1) ==
    CASE r1.kind = "ok" -> [raised |-> FALSE, status |-> r1.status]
      [] r1.kind = "refused" /\ use_curl -> [raised |-> FALSE, status |-> 0]
      [] OTHER -> [raised |-> TRUE, status |-> 0]

\* a status check that lets every status through
is_valid_url_any(use_curl, r1) == ~StatusRead(use_curl, r1).raised

is_valid_url(use_curl, r1) ==
    LET rd == StatusRead(use_curl, r1) IN
    ~rd.raised /\ rd.status >= 200 /\ rd.status < 400

\* what telegram_bot.send_valid_link can do: return True, return False, raise
NotifyOutcomes == {"sent", "false", "raises"}

\* a notification whose exception is not caught where it is sent
NotifyUnguarded(tg) == tg = "raises"

\* try: telegram_bot.send_valid_link(...) except Exception: the exception is
\* logged; no outcome of the notification leaves the inner try block
NotifyEscapes(tg) == FALSE

\* the tuple a check function returns: its first component and its length, with
\* the side effects of the call (append to OUTPUT_FILE, send_valid_link), whether
\* the redirect-following request was made, and missing_patterns
CheckResult(valid, arity, second, missing) ==
    [valid |-> valid, arity |-> arity, saved |-> valid, notify |-> valid,
     second |-> second, missing |-> missing, found |-> {}, laddoo_type |-> "",
     effects |-> IF valid THEN << "append", "notify" >> ELSE << >>]

\* the all_patterns_found branch: the line is appended, the notification is
\* sent, (True, code, url, final_url, found_patterns, laddoo_type) is returned;
\* an exception that leaves the branch reaches the outer except clause
MatchResult(r2, tg) ==
    IF NotifyEscapes(tg)
    THEN [CheckResult(FALSE, 5, TRUE, {}) EXCEPT
            !.saved = TRUE, !.notify = TRUE, !.effects = << "append", "notify" >>]
    ELSE [CheckResult(TRUE, 6, TRUE, {}) EXCEPT
            !.found = r2.found, !.laddoo_type = r2.laddoo_type]

\* a requests backend for which one found pattern is enough
check_url_requests_any(r1, r2, tg) ==
    IF ~is_valid_url(FALSE, r1) THEN CheckResult(FALSE, 5, FALSE, {})
    ELSE IF r2.kind # "ok" THEN CheckResult(FALSE, 5, TRUE, {})
    ELSE IF r2.found # {}
         THEN MatchResult(r2, tg)
         ELSE CheckResult(FALSE, 5, TRUE, LADDOO_PATTERNS \ r2.found)

\* a curl backend without the status check
check_url_curl_unchecked(r1, r2, tg) ==
    IF r2.kind = "timeout" THEN CheckResult(FALSE, 5, TRUE, {})
    ELSE IF \A pattern \in LADDOO_PATTERNS : pattern \in r2.found
         THEN MatchResult(r2, tg)
         ELSE CheckResult(FALSE, 5, TRUE, LADDOO_PATTERNS \ r2.found)

\* subprocess.run raises on a timeout only: after a failed connection the
\* url_effective that curl printed is analysed like any resolved URL
check_url_curl(r1, r2, tg) ==
    IF ~is_valid_url(TRUE, r1) THEN CheckResult(FALSE, 5, FALSE, {})
    ELSE IF r2.kind = "timeout" THEN CheckResult(FALSE, 5, TRUE, {})
    ELSE IF \A pattern \in LADDOO_PATTERNS : pattern \in r2.found
         THEN MatchResult(r2, tg)
         ELSE CheckResult(FALSE, 5, TRUE, LADDOO_PATTERNS \ r2.found)

\* requests.get raises on a timeout and on a failed connection
check_url_requests(r1, r2, tg) ==
    IF ~is_valid_url(FALSE, r1) THEN CheckResult(FALSE, 5, FALSE, {})
    ELSE IF r2.kind # "ok" THEN CheckResult(FALSE, 5, TRUE, {})
    ELSE IF \A pattern \in LADDOO_PATTERNS : pattern \in r2.found
         THEN MatchResult(r2, tg)
         ELSE CheckResult(FALSE, 5, TRUE, LADDOO_PATTERNS \ r2.found)

check_func(curl, r1, r2, tg) ==
    IF curl THEN check_url_curl(r1, r2, tg) ELSE check_url_requests(r1, r2, tg)

\* the answers of the remote endpoint for a code: only a Laddoo code resolves
\* to a URL that holds every pattern
UrlRepliesOf(world, code) ==
    IF code \in world THEN UrlReplies
    ELSE { r \in UrlReplies : r.found # LADDOO_PATTERNS }

\* the results of check_func over both backends, every status reply, the given
\* replies of the redirect-following request and every notification outcome
ResultsOver(replies) ==
    { check_func(curl, r1, r2, tg) :
        curl \in BOOLEAN, r1 \in StatusReplies, r2 \in replies, tg \in NotifyOutcomes }

\* the results of the probe of a code that resolves to a Laddoo URL, and of one
\* that does not
LaddooResults == ResultsOver(UrlRepliesOf({1}, 1))
OtherResults == ResultsOver(UrlRepliesOf({}, 1))

\* the results a probe of the code can return, over both backends
ProbeResults(world, code) ==
    IF code \in world THEN LaddooResults ELSE OtherResults

(* ------------------------------------------------------------------ *)
(* State                                                               *)
(* ------------------------------------------------------------------ *)
VARIABLES
    fs,               \* the checkpoint file and its temp file
    laddoo,           \* the codes the remote endpoint resolves to a Laddoo URL
    output_file,      \* OUTPUT_FILE: the codes of its lines, in order
    notified,         \* send_valid_link calls: the codes, in order
    processed_codes,  \* the in-memory seen-set
    count,            \* counter.count
    last_count,       \* the count load_checkpoint returned
    resume,           \* the answer to the resume prompt
    work_queue,
    result_queue,
    stop_event,       \* the workers' stop flag
    auto_stop,        \* checkpoint_auto_save_stop_event
    checkpoint_lock,  \* "free" or the frame that holds it
    pc,               \* main thread: position in main()
    gcode,            \* main thread: the code being enqueued
    hpc,              \* main thread: position in signal_handler, "none" = not running
    apc,              \* auto-save thread
    sv,               \* the save_checkpoint call of each frame
    wpc,              \* workers: position in worker()
    wcode,            \* workers: the dequeued code
    enq,              \* history: times each code was put on work_queue
    probes,           \* history: times each code was passed to check_func by a worker
    wmatched,         \* history: codes for which a worker's probe found every pattern
    shutdown,         \* history: dequeue count and in-flight count at the signal
    run_saves,        \* history: a save of this run has completed
    final_saved,      \* history: the save of main's finally block has completed
    exit_code,        \* -1 while the process runs
    ck,               \* checkpoint store exercised alone: phase and inputs
    loaded_codes,     \* history: the set load_checkpoint returned at startup
    wraised,          \* history: the worker's last pass through its loop body raised
    pr,               \* one probe exercised alone: inputs, position, effects
    ty,               \* extract_laddoo_type exercised alone: url and result
    ut,               \* a UrlTracker exercised alone by concurrent callers
    counter_lock,     \* Counter.lock of the run's counter: "free" or the frame that holds it
    sink,             \* the output file's writers exercised alone
    gl,               \* the generation loop and its bounded queue exercised alone
    cn,               \* a Counter exercised alone by concurrent callers
    wtimeouts         \* per worker, its dequeue timeouts since the stop flag was set

vars == << fs, laddoo, output_file, notified, processed_codes, count, last_count,
           resume, work_queue, result_queue, stop_event, auto_stop, checkpoint_lock,
           pc, gcode, hpc, apc, sv, wpc, wcode, enq, probes, wmatched, shutdown,
           run_saves, final_saved, exit_code, ck, loaded_codes, wraised, pr, ty, ut,
           counter_lock, sink, gl, cn, wtimeouts >>

Frames == {"main", "handler", "auto"}
\* a save that writes the checkpoint file in place
temp_file_in_place == CHECKPOINT_FILE

\* temp_file = f"{CHECKPOINT_FILE}.tmp"
temp_file == "checkpoint.json.tmp"
FileNames == {CHECKPOINT_FILE, temp_file}

IdleSave == [pc |-> "idle", codes |-> <<>>, counter |-> 0]
CallSave == [pc |-> "call", codes |-> <<>>, counter |-> 0]

(* ------------------------------------------------------------------ *)
(* save_checkpoint(processed, counter_value), one call per frame         *)
(* ------------------------------------------------------------------ *)
\* a rename that does not replace an existing destination
RenameKeepExisting(files, src, dst) ==
    IF src = dst \/ files[dst].exists THEN files
    ELSE [files EXCEPT ![dst] = files[src], ![src] = Absent]

\* os.replace / os.rename
Rename(files, src, dst) ==
    IF src = dst THEN files
    ELSE [files EXCEPT ![dst] = files[src], ![src] = Absent]

\* the caller evaluates counter.value(); checkpoint_data is built from
\* list(processed) and counter_value
SaveEnter(f) ==
    /\ sv[f].pc = "call"
    /\ sv' = [sv EXCEPT ![f] = [pc |-> "lock", codes |-> ListOf(processed_codes),
                                counter |-> count]]

\* a lock that never makes a caller wait
CanAcquireAlways(lock) == TRUE

\* threading.Lock: acquire() returns once no frame holds the lock
CanAcquire(lock) == lock = "free"

\* with checkpoint_lock: open(temp_file, 'w'); json.dump(checkpoint_data, f)
SaveWrite(f) ==
    /\ sv[f].pc = "lock"
    /\ CanAcquire(checkpoint_lock)
    /\ checkpoint_lock' = f
    /\ fs' = [fs EXCEPT ![temp_file] = FileOf(JsonDump(sv[f].codes, sv[f].counter))]
    /\ sv' = [sv EXCEPT ![f].pc = "written"]

\* os.replace(temp_file, CHECKPOINT_FILE); the lock is released; return True
SaveRename(f) ==
    /\ sv[f].pc = "written"
    /\ fs' = Rename(fs, temp_file, CHECKPOINT_FILE)
    /\ checkpoint_lock' = "free"
    /\ sv' = [sv EXCEPT ![f] = IdleSave]

\* a lock that stays with the frame whose block raised
LockKeptAfterError(f) == f

\* with checkpoint_lock: an exception leaves the block and the lock is released
LockAfterError(f) == "free"

\* an I/O error inside the block: open(temp_file, 'w') or json.dump fails, the
\* temp file is untouched, or empty, or holds the record without its end; or
\* os.replace / os.rename fails and no file changes. The exception is caught:
\* return False
SaveFail(f) ==
    /\ sv[f].pc \in {"lock", "written"}
    /\ IF sv[f].pc = "lock"
       THEN /\ CanAcquire(checkpoint_lock)
            /\ LET full == JsonDump(sv[f].codes, sv[f].counter) IN
               \/ fs' = fs
               \/ \E k \in {0, Len(full) - 1} :
                     fs' = [fs EXCEPT ![temp_file] = FileOf(SubSeq(full, 1, k))]
       ELSE fs' = fs
    /\ checkpoint_lock' = LockAfterError(f)
    /\ sv' = [sv EXCEPT ![f] = IdleSave]

(* ------------------------------------------------------------------ *)
(* The run: main(), worker(), checkpoint_auto_save_task, signal_handler  *)
(* ------------------------------------------------------------------ *)
Alive == exit_code = -1

\* the frame that the thread of f is executing
Runs(f) ==
    /\ Alive
    /\ CASE f = "main" -> pc \in {"save", "finally"} /\ hpc \in {"none", "done"}
         [] f = "handler" -> hpc = "save"
         [] f = "auto" -> apc = "saving"

\* the checkpoint files a run can find at startup
StartFiles ==
    { Absent, FileOf(JsonDump(<<1>>, 0)) }

\* the checkpoint store is not exercised alone
CkNone ==
    [ph |-> "none", S |-> {}, n |-> 0, old |-> Absent,
     res |-> [raised |-> FALSE, codes |-> {}, count |-> 0], after |-> "start",
     ret |-> "none"]

\* no probe, no type extraction and no UrlTracker is exercised alone
PrNone == [ph |-> "none"]
TyNone == [ph |-> "none"]
UtNone == [ph |-> "none"]
SinkNone == [ph |-> "none"]
GlNone == [ph |-> "none"]
CnNone == [ph |-> "none"]
NoTimeouts == [w \in Workers |-> 0]
Others == sink = SinkNone /\ gl = GlNone /\ cn = CnNone /\ wtimeouts = NoTimeouts
Harness == pr = PrNone /\ ty = TyNone /\ ut = UtNone /\ Others

\* the state of a starting process, for a checkpoint file and a remote endpoint
Start(file, world) ==
    /\ fs = [n \in FileNames |-> IF n = CHECKPOINT_FILE THEN file ELSE Absent]
    /\ laddoo = world
    /\ output_file = <<>>
    /\ notified = <<>>
    /\ processed_codes = {}
    /\ count = 0
    /\ last_count = 0
    /\ resume = FALSE
    /\ work_queue = <<>>
    /\ result_queue = <<>>
    /\ stop_event = FALSE
    /\ auto_stop = FALSE
    /\ checkpoint_lock = "free"
    /\ pc = "load"
    /\ gcode = 0
    /\ hpc = "none"
    /\ apc = "off"
    /\ sv = [f \in Frames |-> IdleSave]
    /\ wpc = [w \in Workers |-> "off"]
    /\ wcode = [w \in Workers |-> 0]
    /\ enq = [c \in Codes |-> 0]
    /\ probes = [c \in Codes |-> 0]
    /\ wmatched = {}
    /\ shutdown = [seen |-> FALSE, dequeued |-> 0, inflight |-> 0]
    /\ run_saves = FALSE
    /\ final_saved = FALSE
    /\ exit_code = -1
    /\ loaded_codes = {}
    /\ wraised = [w \in Workers |-> FALSE]
    /\ counter_lock = "free"

Init ==
    /\ \E file \in StartFiles, world \in SUBSET Codes : Start(file, world)
    /\ ck = CkNone
    /\ Harness

\* main(): load_checkpoint(), Counter(len(processed_codes)), start_checkpoint_auto_save()
Load ==
    /\ Alive /\ pc = "load"
    /\ LET r == load_checkpoint(fs[CHECKPOINT_FILE]) IN
          /\ processed_codes' = r.codes
          /\ last_count' = r.count
          /\ count' = Cardinality(r.codes)
          /\ loaded_codes' = r.codes
    /\ apc' = "loop"
    /\ pc' = "prompts"
    /\ UNCHANGED << fs, laddoo, output_file, notified, resume, work_queue,
                    result_queue, stop_event, auto_stop, checkpoint_lock, gcode, hpc,
                    sv, wpc, wcode, enq, probes, wmatched, shutdown, run_saves, final_saved,
                    exit_code, ck, wraised, pr, ty, ut,
                    counter_lock, sink, gl, cn, wtimeouts >>

\* a resume prompt after which the loaded set is dropped whatever the answer
KeptCodesNone(answer) == {}

\* main(): processed_codes after the resume prompt, asked when the set is not
\* empty: the answer 'n' replaces it by set()
KeptCodes(answer) ==
    IF processed_codes # {} /\ ~answer THEN {} ELSE processed_codes

\* main(): the backend prompt, the resume prompt, the workers start, the signal
\* handlers are installed
Prompts ==
    /\ Alive /\ pc = "prompts"
    /\ \E answer \in BOOLEAN :
          /\ resume' = (processed_codes # {} /\ answer)
          /\ processed_codes' = KeptCodes(answer)
          /\ count' = IF processed_codes # {} /\ ~answer THEN 0 ELSE count
    /\ wpc' = [w \in Workers |-> "idle"]
    /\ pc' = "test"
    /\ UNCHANGED << fs, laddoo, output_file, notified, last_count, work_queue, result_queue,
                    stop_event, auto_stop, checkpoint_lock, gcode, hpc, apc, sv, wcode,
                    enq, probes, wmatched, shutdown, run_saves, final_saved, exit_code, ck, loaded_codes, wraised, pr, ty, ut,
                    counter_lock, sink, gl, cn, wtimeouts >>

\* main(): test_single_code(test_code, use_curl), the probe runs on the main thread
TestSingle ==
    /\ Alive /\ pc = "test" /\ hpc = "none"
    /\ \E code \in Codes : \E res \in ProbeResults(laddoo, code) :
             /\ output_file' = IF res.saved THEN Append(output_file, code) ELSE output_file
             /\ notified' = IF res.notify THEN Append(notified, code) ELSE notified
    /\ pc' = "gen"
    /\ UNCHANGED << fs, laddoo, processed_codes, count, last_count, resume,
                    work_queue, result_queue, stop_event, auto_stop, checkpoint_lock,
                    gcode, hpc, apc, sv, wpc, wcode, enq, probes, wmatched, shutdown, run_saves,
                    final_saved, exit_code, ck, loaded_codes, wraised, pr, ty, ut,
                    counter_lock, sink, gl, cn, wtimeouts >>

\* main(): no code is tested first
SkipTest ==
    /\ Alive /\ pc = "test" /\ hpc = "none"
    /\ pc' = "gen"
    /\ UNCHANGED << fs, laddoo, output_file, notified, processed_codes, count, last_count,
                    resume, work_queue, result_queue, stop_event, auto_stop,
                    checkpoint_lock, gcode, hpc, apc, sv, wpc, wcode, enq, probes, wmatched,
                    shutdown, run_saves, final_saved, exit_code, ck, loaded_codes, wraised, pr, ty, ut,
                    counter_lock, sink, gl, cn, wtimeouts >>

\* a generation loop that enqueues whatever it generates
FreshAlways(code) == TRUE

\* the generation loop's test: a generated code that is in processed_codes is skipped
Fresh(code) == code \notin processed_codes

\* generation loop: generate_random_code(6); skip if seen; work_queue.put(code)
Generate ==
    /\ Alive /\ pc = "gen" /\ hpc = "none"
    /\ \E code \in Codes :
          /\ Fresh(code)
          /\ work_queue' = Append(work_queue, code)
          /\ enq' = [enq EXCEPT ![code] = @ + 1]
          /\ gcode' = code
    /\ pc' = "mark"
    /\ UNCHANGED << fs, laddoo, output_file, notified, processed_codes, count, last_count,
                    resume, result_queue, stop_event, auto_stop,
                    checkpoint_lock, hpc, apc, sv, wpc, wcode, probes, wmatched, shutdown,
                    run_saves, final_saved, exit_code, ck, loaded_codes, wraised, pr, ty, ut,
                    counter_lock, sink, gl, cn, wtimeouts >>

\* generation loop: processed_codes.add(code); the periodic save is due or not
MarkSeen(due) ==
    /\ Alive /\ pc = "mark" /\ hpc = "none"
    /\ processed_codes' = processed_codes \cup {gcode}
    /\ gcode' = 0
    /\ IF due THEN pc' = "save" /\ sv' = [sv EXCEPT !["main"] = CallSave]
       ELSE pc' = "gen" /\ sv' = sv
    /\ UNCHANGED << fs, laddoo, output_file, notified, count, last_count, resume,
                    work_queue, result_queue, stop_event, auto_stop, checkpoint_lock,
                    hpc, apc, wpc, wcode, enq, probes, wmatched, shutdown, run_saves,
                    final_saved, exit_code, ck, loaded_codes, wraised, pr, ty, ut,
                    counter_lock, sink, gl, cn, wtimeouts >>

\* save_checkpoint steps of a frame; the caller goes on when the call returns
StepSaveEnter(f) ==
    /\ Runs(f)
    /\ SaveEnter(f)
    /\ UNCHANGED << fs, laddoo, output_file, notified, processed_codes, count, last_count,
                    resume, work_queue, result_queue, stop_event, auto_stop,
                    checkpoint_lock, pc, gcode, hpc, apc, wpc, wcode, enq, probes, wmatched,
                    shutdown, run_saves, final_saved, exit_code, ck, loaded_codes, wraised, pr, ty, ut,
                    counter_lock, sink, gl, cn, wtimeouts >>

StepSaveWrite(f) ==
    /\ Runs(f)
    /\ SaveWrite(f)
    /\ UNCHANGED << laddoo, output_file, notified, processed_codes, count, last_count,
                    resume, work_queue, result_queue, stop_event, auto_stop,
                    pc, gcode, hpc, apc, wpc, wcode, enq, probes, wmatched, shutdown, run_saves,
                    final_saved, exit_code, ck, loaded_codes, wraised, pr, ty, ut,
                    counter_lock, sink, gl, cn, wtimeouts >>

StepSaveRename(f) ==
    /\ Runs(f)
    /\ SaveRename(f)
    /\ run_saves' = TRUE
    /\ pc' = IF f # "main" THEN pc ELSE IF pc = "finally" THEN "join" ELSE "gen"
    /\ final_saved' = (final_saved \/ (f = "main" /\ pc = "finally"))
    /\ hpc' = IF f = "handler" THEN "stop" ELSE hpc
    /\ apc' = IF f = "auto" THEN "loop" ELSE apc
    /\ UNCHANGED << laddoo, output_file, notified, processed_codes, count, last_count,
                    resume, work_queue, result_queue, stop_event, auto_stop,
                    gcode, wpc, wcode, enq, probes, wmatched, shutdown, exit_code, ck, loaded_codes, wraised, pr, ty, ut,
                    counter_lock, sink, gl, cn, wtimeouts >>

RECURSIVE SumOver(_, _)
SumOver(f, S) ==
    IF S = {} THEN 0
    ELSE LET x == CHOOSE y \in S : TRUE IN f[x] + SumOver(f, S \ {x})

\* candidates taken off work_queue so far, and workers holding one
Dequeued == SumOver(enq, Codes) - Len(work_queue)
InFlight == Cardinality({ w \in Workers : wpc[w] \in {"got", "probe"} })

\* SIGINT / SIGTERM is delivered: signal_handler starts on the main thread
Signal ==
    /\ Alive /\ hpc = "none"
    /\ pc \in {"test", "gen", "mark", "save"}
    /\ hpc' = "save"
    /\ sv' = [sv EXCEPT !["handler"] = CallSave]
    /\ shutdown' = [seen |-> TRUE, dequeued |-> Dequeued, inflight |-> InFlight]
    /\ UNCHANGED << fs, laddoo, output_file, notified, processed_codes, count, last_count,
                    resume, work_queue, result_queue, stop_event, auto_stop,
                    checkpoint_lock, pc, gcode, apc, wpc, wcode, enq, probes, wmatched,
                    run_saves, final_saved, exit_code, ck, loaded_codes, wraised, pr, ty, ut,
                    counter_lock, sink, gl, cn, wtimeouts >>

\* signal_handler after its save: stop_checkpoint_auto_save(), sys.exit(0);
\* SystemExit unwinds main() to its finally block
HandlerExit ==
    /\ Alive /\ hpc = "stop"
    /\ auto_stop' = TRUE
    /\ hpc' = "done"
    /\ pc' = "finally"
    /\ gcode' = 0
    /\ sv' = [sv EXCEPT !["main"] = CallSave]
    /\ checkpoint_lock' = IF checkpoint_lock = "main" THEN "free" ELSE checkpoint_lock
    /\ UNCHANGED << fs, laddoo, output_file, notified, processed_codes, count, last_count,
                    resume, work_queue, result_queue, stop_event, apc, wpc,
                    wcode, enq, probes, wmatched, shutdown, run_saves, final_saved, exit_code,
                    ck, loaded_codes, wraised, pr, ty, ut,
                    counter_lock, sink, gl, cn, wtimeouts >>

\* main()'s finally block after its save: the joins time out, SystemExit leaves
\* the process with code 0
Exit ==
    /\ Alive /\ pc = "join"
    /\ pc' = "exited"
    /\ exit_code' = 0
    /\ UNCHANGED << fs, laddoo, output_file, notified, processed_codes, count, last_count,
                    resume, work_queue, result_queue, stop_event, auto_stop,
                    checkpoint_lock, gcode, hpc, apc, sv, wpc, wcode, enq, probes, wmatched,
                    shutdown, run_saves, final_saved, ck, loaded_codes, wraised, pr, ty, ut,
                    counter_lock, sink, gl, cn, wtimeouts >>

\* checkpoint_auto_save_task: the interval has passed and processed_codes is not empty
AutoSaveDue ==
    /\ Alive /\ apc = "loop" /\ ~auto_stop
    /\ processed_codes # {}
    /\ apc' = "saving"
    /\ sv' = [sv EXCEPT !["auto"] = CallSave]
    /\ UNCHANGED << fs, laddoo, output_file, notified, processed_codes, count, last_count,
                    resume, work_queue, result_queue, stop_event, auto_stop,
                    checkpoint_lock, pc, gcode, hpc, wpc, wcode, enq, probes, wmatched, shutdown,
                    run_saves, final_saved, exit_code, ck, loaded_codes, wraised, pr, ty, ut,
                    counter_lock, sink, gl, cn, wtimeouts >>

\* checkpoint_auto_save_task leaves its loop once its stop event is set
AutoSaveStop ==
    /\ Alive /\ apc = "loop" /\ auto_stop
    /\ apc' = "done"
    /\ UNCHANGED << fs, laddoo, output_file, notified, processed_codes, count, last_count,
                    resume, work_queue, result_queue, stop_event, auto_stop,
                    checkpoint_lock, pc, gcode, hpc, sv, wpc, wcode, enq, probes, wmatched,
                    shutdown, run_saves, final_saved, exit_code, ck, loaded_codes, wraised, pr, ty, ut,
                    counter_lock, sink, gl, cn, wtimeouts >>

\* worker(): code = work_queue.get(timeout=1) while the stop flag is not set
WorkerGet(w) ==
    /\ Alive /\ wpc[w] = "idle"
    /\ ~stop_event
    /\ work_queue # <<>>
    /\ wcode' = [wcode EXCEPT ![w] = Head(work_queue)]
    /\ work_queue' = Tail(work_queue)
    /\ wpc' = [wpc EXCEPT ![w] = "got"]
    /\ UNCHANGED << fs, laddoo, output_file, notified, processed_codes, count, last_count,
                    resume, result_queue, stop_event, auto_stop,
                    checkpoint_lock, pc, gcode, hpc, apc, sv, enq, probes, wmatched, shutdown,
                    run_saves, final_saved, exit_code, ck, loaded_codes, wraised, pr, ty, ut,
                    counter_lock, sink, gl, cn, wtimeouts >>

\* a worker that counts the candidate before it tests the stop flag
WorkerCountAlways(w) ==
    /\ Alive /\ wpc[w] = "got"
    /\ wpc' = [wpc EXCEPT ![w] = IF stop_event THEN "done" ELSE "probe"]
    /\ count' = count + 1
    /\ UNCHANGED << fs, laddoo, output_file, notified, processed_codes, last_count,
                    resume, work_queue, result_queue, stop_event, auto_stop,
                    checkpoint_lock, pc, gcode, hpc, apc, sv, wcode, enq, probes,
                    wmatched, shutdown, run_saves, final_saved, exit_code, ck,
                    loaded_codes, wraised, pr, ty, ut, counter_lock, sink, gl, cn,
                    wtimeouts >>

\* worker(): break if the stop flag is set, else count = counter.increment()
WorkerCount(w) ==
    /\ Alive /\ wpc[w] = "got"
    /\ IF stop_event
       THEN /\ wpc' = [wpc EXCEPT ![w] = "done"]
            /\ count' = count
       ELSE /\ wpc' = [wpc EXCEPT ![w] = "probe"]
            /\ count' = count + 1
    /\ UNCHANGED << fs, laddoo, output_file, notified, processed_codes, last_count, resume, work_queue, result_queue, stop_event, auto_stop,
                    checkpoint_lock, pc, gcode, hpc, apc, sv, wcode, enq, probes, wmatched,
                    shutdown, run_saves, final_saved, exit_code, ck, loaded_codes, wraised, pr, ty, ut,
                    counter_lock, sink, gl, cn, wtimeouts >>

\* worker(): the five names the result of check_func is unpacked into
UnpackArity == 5

\* worker(): the unpacking raises ValueError when the tuple has another length
Raises(res) == res.arity # UnpackArity

\* worker(): result_queue.put is reached with a valid result
PutsResult(res) == ~Raises(res) /\ res.valid

\* a worker whose thread ends when its loop body raises
AfterProbeDies(res) == IF Raises(res) THEN "done" ELSE "idle"

\* worker(): the position after check_func(code): task_done() and the next pass,
\* or the except clause (the error is logged) and the next pass
AfterProbe(res) == "idle"

\* worker(): check_func(code); the result is unpacked; a valid result is put on
\* result_queue; an exception (the unpacking of a longer tuple) is logged
WorkerProbe(w) ==
    /\ Alive /\ wpc[w] = "probe"
    /\ \E res \in ProbeResults(laddoo, wcode[w]) :
             /\ output_file' =
                   IF res.saved THEN Append(output_file, wcode[w]) ELSE output_file
             /\ notified' = IF res.notify THEN Append(notified, wcode[w]) ELSE notified
             /\ result_queue' =
                   IF PutsResult(res) THEN Append(result_queue, wcode[w])
                   ELSE result_queue
             /\ wmatched' = IF res.valid THEN wmatched \cup {wcode[w]} ELSE wmatched
             /\ wraised' = [wraised EXCEPT ![w] = Raises(res)]
             /\ wpc' = [wpc EXCEPT ![w] = AfterProbe(res)]
    /\ probes' = [probes EXCEPT ![wcode[w]] = @ + 1]
    /\ wcode' = [wcode EXCEPT ![w] = 0]
    /\ UNCHANGED << fs, laddoo, processed_codes, count, last_count, resume,
                    work_queue, stop_event, auto_stop, checkpoint_lock, pc, gcode, hpc,
                    apc, sv, enq, shutdown, run_saves, final_saved, exit_code, ck,
                    loaded_codes, pr, ty, ut,
                    counter_lock, sink, gl, cn, wtimeouts >>

(* ------------------------------------------------------------------ *)
(* The checkpoint store alone: save_checkpoint, a crash, load_checkpoint *)
(* ------------------------------------------------------------------ *)
\* largest counter value passed to save_checkpoint
MaxCounter == 2

\* the variables of the run that the checkpoint store does not touch
RunVars == << laddoo, output_file, notified, last_count, resume, work_queue,
              result_queue, stop_event, auto_stop, pc, gcode, hpc, apc, wpc, wcode,
              enq, probes, wmatched, shutdown, run_saves, final_saved, exit_code,
              loaded_codes, wraised, pr, ty, ut,
                    counter_lock, sink, gl, cn >>

\* contents the checkpoint file can have when a process starts: absent, empty,
\* not JSON, JSON that is no record, a truncated record, a record of the old
\* format, a record of the new format
CkFiles ==
    { Absent,
      FileOf(<<>>),
      FileOf(<< Bracket("garbage") >>),
      FileOf(<< Bracket("["), Bracket("]") >>),
      FileOf(SubSeq(JsonDump(<<1>>, 1), 1, 3)),
      FileOf(<< Bracket("{"), Tok("processed_codes", <<1, 2>>, 0),
                Tok("processed_count", <<>>, 2), Bracket("}") >>),
      FileOf(JsonDump(<<2>>, 1)) }

CkIdle(old) ==
    [ph |-> "idle", S |-> {}, n |-> 0, old |-> old, res |-> LoadResult(FALSE, {}, 0),
     after |-> "start", ret |-> "none"]

InitCkpt ==
    /\ \E file \in CkFiles : Start(file, {})
    /\ ck = CkIdle(fs[CHECKPOINT_FILE])
    /\ Harness

\* save_checkpoint(S, n) is called; after a failed call the same S and n are
\* saved again, and ret keeps the False of the failed call
CkCall ==
    /\ ck.ph \in {"idle", "loaded", "failed"}
    /\ \E S \in IF ck.ph = "failed" THEN {ck.S} ELSE SUBSET Codes,
          n \in IF ck.ph = "failed" THEN {ck.n} ELSE 0..MaxCounter :
          /\ processed_codes' = S
          /\ count' = n
          /\ ck' = [CkIdle(fs[CHECKPOINT_FILE]) EXCEPT
                      !.ph = "saving", !.S = S, !.n = n,
                      !.ret = IF ck.ph = "failed" THEN ck.ret ELSE "none"]
    /\ sv' = [sv EXCEPT !["main"] = CallSave]
    /\ UNCHANGED << fs, checkpoint_lock, RunVars, wtimeouts >>

\* the steps of the call
CkEnter ==
    /\ ck.ph = "saving"
    /\ SaveEnter("main")
    /\ UNCHANGED << fs, checkpoint_lock, processed_codes, count, ck, RunVars, wtimeouts >>

CkWrite ==
    /\ ck.ph = "saving"
    /\ SaveWrite("main")
    /\ UNCHANGED << processed_codes, count, ck, RunVars, wtimeouts >>

CkRename ==
    /\ ck.ph = "saving"
    /\ SaveRename("main")
    /\ ck' = [ck EXCEPT !.ph = "saved", !.ret = "True"]
    /\ UNCHANGED << processed_codes, count, RunVars, wtimeouts >>

\* the call meets an I/O error at the write of the temp file or at the rename,
\* and returns False
CkFail ==
    /\ ck.ph = "saving"
    /\ SaveFail("main")
    /\ ck' = [ck EXCEPT !.ph = "failed", !.ret = "False"]
    /\ UNCHANGED << processed_codes, count, RunVars, wtimeouts >>

\* the process crashes inside save_checkpoint: before the write, part way through
\* the write of the temp file, or between the write and the rename
CkCrash ==
    /\ ck.ph = "saving"
    /\ IF sv["main"].pc = "lock"
       THEN LET full == JsonDump(sv["main"].codes, sv["main"].counter) IN
            \E k \in 0..Len(full) :
               fs' = [fs EXCEPT ![temp_file] = FileOf(SubSeq(full, 1, k))]
       ELSE fs' = fs
    /\ checkpoint_lock' = "free"
    /\ sv' = [sv EXCEPT !["main"] = IdleSave]
    /\ ck' = [ck EXCEPT !.ph = "crashed", !.ret = "none"]
    /\ UNCHANGED << processed_codes, count, RunVars, wtimeouts >>

\* load_checkpoint() in the process, or in the next process after a crash
CkLoad ==
    /\ ck.ph \in {"idle", "saved", "crashed"}
    /\ ck' = [ck EXCEPT !.ph = "loaded", !.after = ck.ph,
                        !.res = load_checkpoint(fs[CHECKPOINT_FILE])]
    /\ UNCHANGED << fs, checkpoint_lock, sv, processed_codes, count, RunVars, wtimeouts >>

NextCkpt ==
    \/ CkCall
    \/ CkEnter
    \/ CkWrite
    \/ CkRename
    \/ CkFail
    \/ CkCrash
    \/ CkLoad

SpecCkpt == InitCkpt /\ [][NextCkpt]_vars

(* ------------------------------------------------------------------ *)
(* One probe alone: check_func(code) and the worker's handling of it     *)
(* ------------------------------------------------------------------ *)
\* longest resolved URL, in pieces
MaxUrlLen == 4

Urls == UNION { [1..n -> UrlPieces] : n \in 0..MaxUrlLen }

\* the inputs of a probe: the backend, what the status check meets, what the
\* redirect-following request meets, the last URL of its chain, and what the
\* notification does
ProbeInput(use_curl, r1, kind, final_url, tg) ==
    [ph |-> "start", use_curl |-> use_curl, r1 |-> r1, kind |-> kind,
     final_url |-> final_url, tg |-> tg,
     res |-> CheckResult(FALSE, 5, FALSE, {}), queued |-> FALSE,
     again |-> CheckResult(FALSE, 5, FALSE, {})]

\* a candidate is about to be probed
InitProbe ==
    /\ Start(Absent, {})
    /\ ck = CkNone
    /\ Others
    /\ ty = TyNone
    /\ ut = UtNone
    /\ \E use_curl \in BOOLEAN, r1 \in StatusReplies,
          kind \in {"ok", "timeout", "refused"}, final_url \in Urls,
          tg \in NotifyOutcomes :
          pr = ProbeInput(use_curl, r1, kind, final_url, tg)

\* what the redirect-following request gives the pattern search and
\* extract_laddoo_type(decoded_url)
UrlReply(p) ==
    [kind |-> p.kind, found |-> found_patterns(p.final_url),
     laddoo_type |-> extract_laddoo_type(unquote(p.final_url))]

\* a probe whose verdict depends on the seen-set of the run
ProbeOfSeen(p) ==
    IF processed_codes # {} THEN CheckResult(FALSE, 5, FALSE, {})
    ELSE check_func(p.use_curl, p.r1, UrlReply(p), p.tg)

\* check_func(code) on the inputs of p
ProbeOf(p) == check_func(p.use_curl, p.r1, UrlReply(p), p.tg)

\* check_func(code)
PrCheck ==
    /\ pr.ph = "start"
    /\ pr' = [pr EXCEPT !.ph = "returned", !.res = ProbeOf(pr)]
    /\ UNCHANGED << fs, laddoo, output_file, notified, processed_codes, count,
                    last_count, resume, work_queue, result_queue, stop_event,
                    auto_stop, checkpoint_lock, pc, gcode, hpc, apc, sv, wpc, wcode,
                    enq, probes, wmatched, shutdown, run_saves, final_saved, exit_code,
                    ck, loaded_codes, wraised, ty, ut, counter_lock, sink, gl, cn, wtimeouts >>

\* worker(): the result is unpacked and, if valid, put on result_queue
PrUnpack ==
    /\ pr.ph = "returned"
    /\ pr' = [pr EXCEPT !.ph = "done", !.queued = PutsResult(pr.res)]
    /\ UNCHANGED << fs, checkpoint_lock, sv, processed_codes, count, ck, loaded_codes,
                    wraised, ty, ut, laddoo, output_file, notified, last_count,
                    resume, work_queue, result_queue, stop_event, auto_stop, pc, gcode,
                    hpc, apc, wpc, wcode, enq, probes, wmatched, shutdown, run_saves,
                    final_saved, exit_code,
                    counter_lock, sink, gl, cn, wtimeouts >>

NextProbe ==
    \/ PrCheck
    \/ PrUnpack

SpecProbe == InitProbe /\ [][NextProbe]_vars

\* the same probe executed twice in one run, the run's state having changed in
\* between; the resolved URLs start with the first pattern and end with the
\* third or with a category label
TwiceUrls ==
    { << "iplladdoo2025" >> \o url \o << last >> :
        url \in [1..(MaxUrlLen - 1) -> UrlPieces],
        last \in {"Laddoo+for+you", "ZEN"} }

InitTwice ==
    /\ Start(Absent, {})
    /\ ck = CkNone
    /\ Others
    /\ ty = TyNone
    /\ ut = UtNone
    /\ \E use_curl \in BOOLEAN, r1 \in StatusReplies,
          kind \in {"ok", "timeout", "refused"}, final_url \in TwiceUrls :
          pr = ProbeInput(use_curl, r1, kind, final_url, "sent")

\* the run goes on between the two executions: the seen-set and the counter grow
PrRunOn ==
    /\ pr.ph = "done"
    /\ \E S \in SUBSET Codes \ {{}} :
          /\ processed_codes' = S
          /\ count' = Cardinality(S)
    /\ pr' = [pr EXCEPT !.ph = "later"]
    /\ UNCHANGED << fs, laddoo, output_file, notified, last_count, resume, work_queue,
                    result_queue, stop_event, auto_stop, checkpoint_lock, pc, gcode,
                    hpc, apc, sv, wpc, wcode, enq, probes, wmatched, shutdown,
                    run_saves, final_saved, exit_code, ck, loaded_codes, wraised, ty,
                    ut, counter_lock, sink, gl, cn, wtimeouts >>

\* check_func(code) again, with the same answers of the remote endpoint
PrAgain ==
    /\ pr.ph = "later"
    /\ pr' = [pr EXCEPT !.ph = "again", !.again = ProbeOf(pr)]
    /\ UNCHANGED << fs, laddoo, output_file, notified, processed_codes, count,
                    last_count, resume, work_queue, result_queue, stop_event,
                    auto_stop, checkpoint_lock, pc, gcode, hpc, apc, sv, wpc, wcode,
                    enq, probes, wmatched, shutdown, run_saves, final_saved, exit_code,
                    ck, loaded_codes, wraised, ty, ut, counter_lock, sink, gl, cn, wtimeouts >>

NextTwice ==
    \/ PrCheck
    \/ PrUnpack
    \/ PrRunOn
    \/ PrAgain

SpecTwice == InitTwice /\ [][NextTwice]_vars

(* ------------------------------------------------------------------ *)
(* extract_laddoo_type alone                                            *)
(* ------------------------------------------------------------------ *)
\* longest url passed to extract_laddoo_type, in pieces
MaxTypeLen == 3

InitType ==
    /\ Start(Absent, {})
    /\ ck = CkNone
    /\ Others
    /\ pr = PrNone
    /\ ut = UtNone
    /\ \E url \in UNION { [1..n -> TypePieces] : n \in 0..MaxTypeLen } :
          ty = [ph |-> "start", url |-> url, res |-> ""]

\* laddoo_type = extract_laddoo_type(decoded_url)
TyExtract ==
    /\ ty.ph = "start"
    /\ ty' = [ty EXCEPT !.ph = "done", !.res = extract_laddoo_type(ty.url)]
    /\ UNCHANGED << fs, checkpoint_lock, sv, processed_codes, count, ck, loaded_codes,
                    wraised, pr, ut, laddoo, output_file, notified, last_count,
                    resume, work_queue, result_queue, stop_event, auto_stop, pc, gcode,
                    hpc, apc, wpc, wcode, enq, probes, wmatched, shutdown, run_saves,
                    final_saved, exit_code,
                    counter_lock, sink, gl, cn, wtimeouts >>

NextType ==
    \/ TyExtract

SpecType == InitType /\ [][NextType]_vars

(* ------------------------------------------------------------------ *)
(* A UrlTracker alone, called by concurrent threads                     *)
(* ------------------------------------------------------------------ *)
\* calls of mark_processed per thread
MaxCalls == 2

Callers == Workers
Keys == Codes

\* UrlTracker(): processed_urls = set(), lock = threading.Lock(); no call yet
InitTracker ==
    /\ Start(Absent, {})
    /\ ck = CkNone
    /\ Others
    /\ pr = PrNone
    /\ ty = TyNone
    /\ ut = [ph |-> "run", processed_urls |-> {}, lock |-> 0,
             tpc |-> [t \in Callers |-> "idle"], url |-> [t \in Callers |-> 0],
             calls |-> [t \in Callers |-> 0],
             trues |-> [k \in Keys |-> 0], falses |-> [k \in Keys |-> 0]]

\* a tracker whose lock never makes a caller wait
TrackerLockIgnored(lock) == TRUE

\* with self.lock: entered once no thread holds the lock
TrackerLockFree(lock) == lock = 0

\* a thread calls mark_processed(url)
TrCall(t) ==
    /\ ut.ph = "run" /\ ut.tpc[t] = "idle"
    /\ ut.calls[t] < MaxCalls
    /\ \E url \in Keys :
          ut' = [ut EXCEPT !.tpc[t] = "wait", !.url[t] = url, !.calls[t] = @ + 1]
    /\ UNCHANGED << fs, checkpoint_lock, sv, processed_codes, count, ck, loaded_codes,
                    wraised, pr, ty, laddoo, output_file, notified, last_count,
                    resume, work_queue, result_queue, stop_event, auto_stop, pc, gcode,
                    hpc, apc, wpc, wcode, enq, probes, wmatched, shutdown, run_saves,
                    final_saved, exit_code,
                    counter_lock, sink, gl, cn, wtimeouts >>

\* with self.lock:
TrAcquire(t) ==
    /\ ut.ph = "run" /\ ut.tpc[t] = "wait"
    /\ TrackerLockFree(ut.lock)
    /\ ut' = [ut EXCEPT !.tpc[t] = "test", !.lock = t]
    /\ UNCHANGED << fs, checkpoint_lock, sv, processed_codes, count, ck, loaded_codes,
                    wraised, pr, ty, laddoo, output_file, notified, last_count,
                    resume, work_queue, result_queue, stop_event, auto_stop, pc, gcode,
                    hpc, apc, wpc, wcode, enq, probes, wmatched, shutdown, run_saves,
                    final_saved, exit_code,
                    counter_lock, sink, gl, cn, wtimeouts >>

\* if url in self.processed_urls: return False
TrTest(t) ==
    /\ ut.ph = "run" /\ ut.tpc[t] = "test"
    /\ IF ut.url[t] \in ut.processed_urls
       THEN ut' = [ut EXCEPT !.tpc[t] = "ret", !.falses[ut.url[t]] = @ + 1]
       ELSE ut' = [ut EXCEPT !.tpc[t] = "add"]
    /\ UNCHANGED << fs, checkpoint_lock, sv, processed_codes, count, ck, loaded_codes,
                    wraised, pr, ty, laddoo, output_file, notified, last_count,
                    resume, work_queue, result_queue, stop_event, auto_stop, pc, gcode,
                    hpc, apc, wpc, wcode, enq, probes, wmatched, shutdown, run_saves,
                    final_saved, exit_code,
                    counter_lock, sink, gl, cn, wtimeouts >>

\* self.processed_urls.add(url); return True
TrAdd(t) ==
    /\ ut.ph = "run" /\ ut.tpc[t] = "add"
    /\ ut' = [ut EXCEPT !.tpc[t] = "ret",
                        !.processed_urls = @ \cup {ut.url[t]},
                        !.trues[ut.url[t]] = @ + 1]
    /\ UNCHANGED << fs, checkpoint_lock, sv, processed_codes, count, ck, loaded_codes,
                    wraised, pr, ty, laddoo, output_file, notified, last_count,
                    resume, work_queue, result_queue, stop_event, auto_stop, pc, gcode,
                    hpc, apc, wpc, wcode, enq, probes, wmatched, shutdown, run_saves,
                    final_saved, exit_code,
                    counter_lock, sink, gl, cn, wtimeouts >>

\* the with block is left: the lock is released and the call returns
TrReturn(t) ==
    /\ ut.ph = "run" /\ ut.tpc[t] = "ret"
    /\ ut' = [ut EXCEPT !.tpc[t] = "idle", !.url[t] = 0,
                        !.lock = IF @ = t THEN 0 ELSE @]
    /\ UNCHANGED << fs, checkpoint_lock, sv, processed_codes, count, ck, loaded_codes,
                    wraised, pr, ty, laddoo, output_file, notified, last_count,
                    resume, work_queue, result_queue, stop_event, auto_stop, pc, gcode,
                    hpc, apc, wpc, wcode, enq, probes, wmatched, shutdown, run_saves,
                    final_saved, exit_code,
                    counter_lock, sink, gl, cn, wtimeouts >>

NextTracker ==
    \/ \E t \in Callers : TrCall(t)
    \/ \E t \in Callers : TrAcquire(t)
    \/ \E t \in Callers : TrTest(t)
    \/ \E t \in Callers : TrAdd(t)
    \/ \E t \in Callers : TrReturn(t)

SpecTracker == InitTracker /\ [][NextTracker]_vars

(* ------------------------------------------------------------------ *)
(* The output file's writers alone: a ResultWriter thread fed through a  *)
(* ResultQueue, and threads whose probe found a match                   *)
(* ------------------------------------------------------------------ *)
\* URLs put on the result queue
MaxSubmits == 2

\* the threads that can have the output file open
WriterThread == << "writer", 0 >>
WorkerThread(t) == << "worker", t >>

\* the items of the result queue: a URL, or None
UrlItem(c) == << c >>
NoneItem == << >>

\* ResultWriter(result_queue, url_tracker, output_file).start(): running = True,
\* batch = [], the queue and the tracker are empty
InitSink ==
    /\ Start(Absent, {})
    /\ ck = CkNone
    /\ pr = PrNone /\ ty = TyNone /\ ut = UtNone
    /\ gl = GlNone /\ cn = CnNone /\ wtimeouts = NoTimeouts
    /\ sink = [ph |-> "run", lines |-> << >>, open |-> {}, queue |-> << >>,
               running |-> TRUE, wpc |-> "loop", item |-> NoneItem, batch |-> << >>,
               processed_urls |-> {}, file_lock |-> "free",
               apc |-> [t \in Workers |-> "idle"], acode |-> [t \in Workers |-> 0],
               submitted |-> {}, submits |-> 0, stopping |-> FALSE,
               stopped |-> FALSE, puts |-> << >>, written |-> << >>, idle |-> FALSE]

\* result_queue.put(url) by some thread, before stop()
SinkPut ==
    /\ sink.ph = "run" /\ ~sink.stopping
    /\ sink.submits < MaxSubmits
    /\ \E c \in Codes :
          sink' = [sink EXCEPT !.queue = Append(@, UrlItem(c)), !.submitted = @ \cup {c},
                               !.submits = @ + 1, !.puts = Append(@, c)]
    /\ UNCHANGED << fs, laddoo, output_file, notified, processed_codes, count,
                    last_count, resume, work_queue, result_queue, stop_event,
                    auto_stop, checkpoint_lock, pc, gcode, hpc, apc, sv, wpc, wcode,
                    enq, probes, wmatched, shutdown, run_saves, final_saved, exit_code,
                    ck, loaded_codes, wraised, pr, ty, ut, counter_lock, gl, cn, wtimeouts >>

\* ResultWriter.stop(): self.running = False
SinkStopFlag ==
    /\ sink.ph = "run" /\ ~sink.stopping
    /\ sink' = [sink EXCEPT !.running = FALSE, !.stopping = TRUE]
    /\ UNCHANGED << fs, laddoo, output_file, notified, processed_codes, count,
                    last_count, resume, work_queue, result_queue, stop_event,
                    auto_stop, checkpoint_lock, pc, gcode, hpc, apc, sv, wpc, wcode,
                    enq, probes, wmatched, shutdown, run_saves, final_saved, exit_code,
                    ck, loaded_codes, wraised, pr, ty, ut, counter_lock, gl, cn, wtimeouts >>

\* ResultWriter.stop(): self.result_queue.put(None)
SinkStopSentinel ==
    /\ sink.ph = "run" /\ sink.stopping /\ ~sink.stopped
    /\ sink' = [sink EXCEPT !.queue = Append(@, NoneItem), !.stopped = TRUE]
    /\ UNCHANGED << fs, laddoo, output_file, notified, processed_codes, count,
                    last_count, resume, work_queue, result_queue, stop_event,
                    auto_stop, checkpoint_lock, pc, gcode, hpc, apc, sv, wpc, wcode,
                    enq, probes, wmatched, shutdown, run_saves, final_saved, exit_code,
                    ck, loaded_codes, wraised, pr, ty, ut, counter_lock, gl, cn, wtimeouts >>

\* ResultWriter.run(): while self.running
RwLoop ==
    /\ sink.ph = "run" /\ sink.wpc = "loop"
    /\ sink' = [sink EXCEPT !.wpc = IF sink.running THEN "get" ELSE "exited"]
    /\ UNCHANGED << fs, laddoo, output_file, notified, processed_codes, count,
                    last_count, resume, work_queue, result_queue, stop_event,
                    auto_stop, checkpoint_lock, pc, gcode, hpc, apc, sv, wpc, wcode,
                    enq, probes, wmatched, shutdown, run_saves, final_saved, exit_code,
                    ck, loaded_codes, wraised, pr, ty, ut, counter_lock, gl, cn, wtimeouts >>

\* ResultQueue.get(timeout=2): an item arrives
RwGet ==
    /\ sink.ph = "run" /\ sink.wpc = "get"
    /\ sink.queue # << >>
    /\ sink' = [sink EXCEPT !.item = Head(sink.queue), !.queue = Tail(@),
                            !.wpc = "got"]
    /\ UNCHANGED << fs, laddoo, output_file, notified, processed_codes, count,
                    last_count, resume, work_queue, result_queue, stop_event,
                    auto_stop, checkpoint_lock, pc, gcode, hpc, apc, sv, wpc, wcode,
                    enq, probes, wmatched, shutdown, run_saves, final_saved, exit_code,
                    ck, loaded_codes, wraised, pr, ty, ut, counter_lock, gl, cn, wtimeouts >>

\* ResultQueue.get(timeout=2): queue.Empty is caught and None is returned
RwTimeout ==
    /\ sink.ph = "run" /\ sink.wpc = "get"
    /\ sink.queue = << >>
    /\ sink' = [sink EXCEPT !.item = NoneItem, !.wpc = "got", !.idle = TRUE]
    /\ UNCHANGED << fs, laddoo, output_file, notified, processed_codes, count,
                    last_count, resume, work_queue, result_queue, stop_event,
                    auto_stop, checkpoint_lock, pc, gcode, hpc, apc, sv, wpc, wcode,
                    enq, probes, wmatched, shutdown, run_saves, final_saved, exit_code,
                    ck, loaded_codes, wraised, pr, ty, ut, counter_lock, gl, cn, wtimeouts >>

\* ResultWriter.run(): if item is None: _write_batch(); break
\* if self.url_tracker.mark_processed(item): self.batch.append(item); _write_batch()
RwHandle ==
    /\ sink.ph = "run" /\ sink.wpc = "got"
    /\ IF sink.item = NoneItem
       THEN sink' = [sink EXCEPT !.wpc = IF sink.batch = << >> THEN "exited"
                                         ELSE "lastflush"]
       ELSE IF sink.item[1] \in sink.processed_urls
            THEN sink' = [sink EXCEPT !.wpc = "loop"]
            ELSE sink' = [sink EXCEPT !.processed_urls = @ \cup {sink.item[1]},
                                      !.batch = Append(@, sink.item[1]),
                                      !.wpc = "flush"]
    /\ UNCHANGED << fs, laddoo, output_file, notified, processed_codes, count,
                    last_count, resume, work_queue, result_queue, stop_event,
                    auto_stop, checkpoint_lock, pc, gcode, hpc, apc, sv, wpc, wcode,
                    enq, probes, wmatched, shutdown, run_saves, final_saved, exit_code,
                    ck, loaded_codes, wraised, pr, ty, ut, counter_lock, gl, cn, wtimeouts >>

\* _write_batch(): with self.file_lock: with open(self.output_file, "a") as f
RwOpen ==
    /\ sink.ph = "run" /\ sink.wpc \in {"flush", "lastflush"}
    /\ sink.file_lock = "free"
    /\ sink' = [sink EXCEPT !.file_lock = "writer", !.open = @ \cup {WriterThread},
                            !.wpc = IF @ = "flush" THEN "write" ELSE "lastwrite"]
    /\ UNCHANGED << fs, laddoo, output_file, notified, processed_codes, count,
                    last_count, resume, work_queue, result_queue, stop_event,
                    auto_stop, checkpoint_lock, pc, gcode, hpc, apc, sv, wpc, wcode,
                    enq, probes, wmatched, shutdown, run_saves, final_saved, exit_code,
                    ck, loaded_codes, wraised, pr, ty, ut, counter_lock, gl, cn, wtimeouts >>

\* _write_batch(): the lines of the batch are written, the file is closed, the
\* lock is released, self.batch = []
RwWrite ==
    /\ sink.ph = "run" /\ sink.wpc \in {"write", "lastwrite"}
    /\ sink' = [sink EXCEPT !.lines = @ \o sink.batch, !.batch = << >>,
                            !.written = @ \o sink.batch,
                            !.open = @ \ {WriterThread}, !.file_lock = "free",
                            !.wpc = IF @ = "write" THEN "loop" ELSE "exited"]
    /\ UNCHANGED << fs, laddoo, output_file, notified, processed_codes, count,
                    last_count, resume, work_queue, result_queue, stop_event,
                    auto_stop, checkpoint_lock, pc, gcode, hpc, apc, sv, wpc, wcode,
                    enq, probes, wmatched, shutdown, run_saves, final_saved, exit_code,
                    ck, loaded_codes, wraised, pr, ty, ut, counter_lock, gl, cn, wtimeouts >>

\* check_url_curl / check_url_requests in a thread whose probe found every
\* pattern: with open(OUTPUT_FILE, "a") as f
ApOpen(t) ==
    /\ sink.ph = "run" /\ sink.apc[t] = "idle"
    /\ \E c \in Codes :
          sink' = [sink EXCEPT !.apc[t] = "open", !.acode[t] = c,
                               !.open = @ \cup {WorkerThread(t)}]
    /\ UNCHANGED << fs, laddoo, output_file, notified, processed_codes, count,
                    last_count, resume, work_queue, result_queue, stop_event,
                    auto_stop, checkpoint_lock, pc, gcode, hpc, apc, sv, wpc, wcode,
                    enq, probes, wmatched, shutdown, run_saves, final_saved, exit_code,
                    ck, loaded_codes, wraised, pr, ty, ut, counter_lock, gl, cn, wtimeouts >>

\* f.write(line); the file is closed
ApWrite(t) ==
    /\ sink.ph = "run" /\ sink.apc[t] = "open"
    /\ sink' = [sink EXCEPT !.lines = Append(@, sink.acode[t]),
                            !.open = @ \ {WorkerThread(t)}, !.apc[t] = "done"]
    /\ UNCHANGED << fs, laddoo, output_file, notified, processed_codes, count,
                    last_count, resume, work_queue, result_queue, stop_event,
                    auto_stop, checkpoint_lock, pc, gcode, hpc, apc, sv, wpc, wcode,
                    enq, probes, wmatched, shutdown, run_saves, final_saved, exit_code,
                    ck, loaded_codes, wraised, pr, ty, ut, counter_lock, gl, cn, wtimeouts >>

NextSink ==
    \/ SinkPut
    \/ SinkStopFlag
    \/ SinkStopSentinel
    \/ RwLoop
    \/ RwGet
    \/ RwTimeout
    \/ RwHandle
    \/ RwOpen
    \/ RwWrite
    \/ \E t \in Workers : ApOpen(t)
    \/ \E t \in Workers : ApWrite(t)

SpecSink == InitSink /\ [][NextSink]_vars

(* ------------------------------------------------------------------ *)
(* The generation loop and its bounded work queue alone                  *)
(* ------------------------------------------------------------------ *)
\* queue.Queue(maxsize=100000), scaled down
QueueCapacity == 4
\* if work_queue.qsize() > 10000, scaled down
NearCapacity == 2
\* candidates enqueued in one run of the loop
MaxEnqueued == 8

\* main() enters the generation loop with an empty work queue
InitGen ==
    /\ Start(Absent, {})
    /\ ck = CkNone
    /\ pr = PrNone /\ ty = TyNone /\ ut = UtNone
    /\ sink = SinkNone /\ cn = CnNone /\ wtimeouts = NoTimeouts
    /\ gl = [ph |-> "run", pc |-> "gen", qlen |-> 0, enqueued |-> 0, slept |-> FALSE]

\* code = generate_random_code(6), a code that is not in processed_codes
GlGenerate ==
    /\ gl.ph = "run" /\ gl.pc = "gen"
    /\ gl.enqueued < MaxEnqueued
    /\ gl' = [gl EXCEPT !.pc = "put", !.slept = FALSE]
    /\ UNCHANGED << fs, laddoo, output_file, notified, processed_codes, count,
                    last_count, resume, work_queue, result_queue, stop_event,
                    auto_stop, checkpoint_lock, pc, gcode, hpc, apc, sv, wpc, wcode,
                    enq, probes, wmatched, shutdown, run_saves, final_saved, exit_code,
                    ck, loaded_codes, wraised, pr, ty, ut, counter_lock, sink, cn, wtimeouts >>

\* work_queue.put(code) returns at once: the queue is not full
GlPut ==
    /\ gl.ph = "run" /\ gl.pc = "put"
    /\ gl.qlen < QueueCapacity
    /\ gl' = [gl EXCEPT !.pc = "check", !.qlen = @ + 1, !.enqueued = @ + 1]
    /\ UNCHANGED << fs, laddoo, output_file, notified, processed_codes, count,
                    last_count, resume, work_queue, result_queue, stop_event,
                    auto_stop, checkpoint_lock, pc, gcode, hpc, apc, sv, wpc, wcode,
                    enq, probes, wmatched, shutdown, run_saves, final_saved, exit_code,
                    ck, loaded_codes, wraised, pr, ty, ut, counter_lock, sink, cn, wtimeouts >>

\* work_queue.put(code) blocks: the queue is full
GlBlock ==
    /\ gl.ph = "run" /\ gl.pc = "put"
    /\ gl.qlen = QueueCapacity
    /\ gl' = [gl EXCEPT !.pc = "blocked"]
    /\ UNCHANGED << fs, laddoo, output_file, notified, processed_codes, count,
                    last_count, resume, work_queue, result_queue, stop_event,
                    auto_stop, checkpoint_lock, pc, gcode, hpc, apc, sv, wpc, wcode,
                    enq, probes, wmatched, shutdown, run_saves, final_saved, exit_code,
                    ck, loaded_codes, wraised, pr, ty, ut, counter_lock, sink, cn, wtimeouts >>

\* the blocked put returns once a worker has taken an item
GlUnblock ==
    /\ gl.ph = "run" /\ gl.pc = "blocked"
    /\ gl.qlen < QueueCapacity
    /\ gl' = [gl EXCEPT !.pc = "check", !.qlen = @ + 1, !.enqueued = @ + 1]
    /\ UNCHANGED << fs, laddoo, output_file, notified, processed_codes, count,
                    last_count, resume, work_queue, result_queue, stop_event,
                    auto_stop, checkpoint_lock, pc, gcode, hpc, apc, sv, wpc, wcode,
                    enq, probes, wmatched, shutdown, run_saves, final_saved, exit_code,
                    ck, loaded_codes, wraised, pr, ty, ut, counter_lock, sink, cn, wtimeouts >>

\* processed_codes.add(code); if work_queue.qsize() > 10000: time.sleep(0.1)
GlCheck ==
    /\ gl.ph = "run" /\ gl.pc = "check"
    /\ gl' = [gl EXCEPT !.pc = IF gl.qlen > NearCapacity THEN "sleep" ELSE "gen"]
    /\ UNCHANGED << fs, laddoo, output_file, notified, processed_codes, count,
                    last_count, resume, work_queue, result_queue, stop_event,
                    auto_stop, checkpoint_lock, pc, gcode, hpc, apc, sv, wpc, wcode,
                    enq, probes, wmatched, shutdown, run_saves, final_saved, exit_code,
                    ck, loaded_codes, wraised, pr, ty, ut, counter_lock, sink, cn, wtimeouts >>

\* time.sleep(0.1) returns
GlWake ==
    /\ gl.ph = "run" /\ gl.pc = "sleep"
    /\ gl' = [gl EXCEPT !.pc = "gen", !.slept = TRUE]
    /\ UNCHANGED << fs, laddoo, output_file, notified, processed_codes, count,
                    last_count, resume, work_queue, result_queue, stop_event,
                    auto_stop, checkpoint_lock, pc, gcode, hpc, apc, sv, wpc, wcode,
                    enq, probes, wmatched, shutdown, run_saves, final_saved, exit_code,
                    ck, loaded_codes, wraised, pr, ty, ut, counter_lock, sink, cn, wtimeouts >>

\* a worker takes an item off the work queue
GlDequeue ==
    /\ gl.ph = "run"
    /\ gl.qlen > 0
    /\ gl' = [gl EXCEPT !.qlen = @ - 1]
    /\ UNCHANGED << fs, laddoo, output_file, notified, processed_codes, count,
                    last_count, resume, work_queue, result_queue, stop_event,
                    auto_stop, checkpoint_lock, pc, gcode, hpc, apc, sv, wpc, wcode,
                    enq, probes, wmatched, shutdown, run_saves, final_saved, exit_code,
                    ck, loaded_codes, wraised, pr, ty, ut, counter_lock, sink, cn, wtimeouts >>

NextGen ==
    \/ GlGenerate
    \/ GlPut
    \/ GlBlock
    \/ GlUnblock
    \/ GlCheck
    \/ GlWake
    \/ GlDequeue

SpecGen == InitGen /\ [][NextGen]_vars

(* ------------------------------------------------------------------ *)
(* The workers alone: a producer, the stop flag being set, the workers  *)
(* ------------------------------------------------------------------ *)
\* dequeue timeouts counted per worker once the stop flag is set
MaxTimeouts == 2

\* the pool of a run before its worker threads are started
InitWorkers ==
    /\ \E world \in {{}, {1}} : Start(Absent, world)
    /\ ck = CkNone
    /\ Harness

\* main(): the worker threads are created and started
WkStart ==
    /\ Alive /\ \A w \in Workers : wpc[w] = "off"
    /\ wpc' = [w \in Workers |-> "idle"]
    /\ UNCHANGED << fs, laddoo, output_file, notified, processed_codes, count,
                    last_count, resume, work_queue, result_queue, stop_event,
                    auto_stop, checkpoint_lock, pc, gcode, hpc, apc, sv, wcode, enq,
                    probes, wmatched, shutdown, run_saves, final_saved, exit_code, ck,
                    loaded_codes, wraised, pr, ty, ut, counter_lock, sink, gl, cn,
                    wtimeouts >>

\* main(): work_queue.put(code)
WkPut(c) ==
    /\ Alive /\ enq[c] = 0
    /\ work_queue' = Append(work_queue, c)
    /\ enq' = [enq EXCEPT ![c] = 1]
    /\ UNCHANGED << fs, laddoo, output_file, notified, processed_codes, count,
                    last_count, resume, result_queue, stop_event, auto_stop,
                    checkpoint_lock, pc, gcode, hpc, apc, sv, wpc, wcode, probes,
                    wmatched, shutdown, run_saves, final_saved, exit_code, ck,
                    loaded_codes, wraised, pr, ty, ut, counter_lock, sink, gl, cn,
                    wtimeouts >>

\* main(): stop_event.set(), after the worker threads were started
WkSetStop ==
    /\ Alive /\ ~stop_event
    /\ \A w \in Workers : wpc[w] # "off"
    /\ stop_event' = TRUE
    /\ UNCHANGED << fs, laddoo, output_file, notified, processed_codes, count,
                    last_count, resume, work_queue, result_queue, auto_stop,
                    checkpoint_lock, pc, gcode, hpc, apc, sv, wpc, wcode, enq, probes,
                    wmatched, shutdown, run_saves, final_saved, exit_code, ck,
                    loaded_codes, wraised, pr, ty, ut, counter_lock, sink, gl, cn,
                    wtimeouts >>

\* worker(): while not stop_event.is_set()
LoopTestAlways == TRUE
LoopTest == ~stop_event

\* worker(): work_queue.get(timeout=1) finds the queue empty and waits
WorkerBlock(w) ==
    /\ Alive /\ wpc[w] = "idle"
    /\ LoopTest
    /\ work_queue = <<>>
    /\ wpc' = [wpc EXCEPT ![w] = "blocked"]
    /\ UNCHANGED << fs, laddoo, output_file, notified, processed_codes, count,
                    last_count, resume, work_queue, result_queue, stop_event,
                    auto_stop, checkpoint_lock, pc, gcode, hpc, apc, sv, wcode, enq,
                    probes, wmatched, shutdown, run_saves, final_saved, exit_code, ck,
                    loaded_codes, wraised, pr, ty, ut, counter_lock, sink, gl, cn,
                    wtimeouts >>

\* worker(): a candidate arrives while work_queue.get(timeout=1) waits
WorkerWake(w) ==
    /\ Alive /\ wpc[w] = "blocked"
    /\ work_queue # <<>>
    /\ wcode' = [wcode EXCEPT ![w] = Head(work_queue)]
    /\ work_queue' = Tail(work_queue)
    /\ wpc' = [wpc EXCEPT ![w] = "got"]
    /\ UNCHANGED << fs, laddoo, output_file, notified, processed_codes, count,
                    last_count, resume, result_queue, stop_event, auto_stop,
                    checkpoint_lock, pc, gcode, hpc, apc, sv, enq, probes, wmatched,
                    shutdown, run_saves, final_saved, exit_code, ck, loaded_codes,
                    wraised, pr, ty, ut, counter_lock, sink, gl, cn, wtimeouts >>

\* worker(): work_queue.get(timeout=1) raises queue.Empty after its timeout:
\* continue, back to the loop test
WorkerTimeout(w) ==
    /\ Alive /\ wpc[w] = "blocked"
    /\ work_queue = <<>>
    /\ wtimeouts[w] < MaxTimeouts
    /\ wpc' = [wpc EXCEPT ![w] = "idle"]
    /\ wtimeouts' = [wtimeouts EXCEPT ![w] = IF stop_event THEN @ + 1 ELSE @]
    /\ UNCHANGED << fs, laddoo, output_file, notified, processed_codes, count,
                    last_count, resume, work_queue, result_queue, stop_event,
                    auto_stop, checkpoint_lock, pc, gcode, hpc, apc, sv, wcode, enq,
                    probes, wmatched, shutdown, run_saves, final_saved, exit_code, ck,
                    loaded_codes, wraised, pr, ty, ut, counter_lock, sink, gl, cn >>

\* worker(): the loop test finds the stop flag set: the function returns
WorkerLeave(w) ==
    /\ Alive /\ wpc[w] = "idle"
    /\ ~LoopTest
    /\ wpc' = [wpc EXCEPT ![w] = "done"]
    /\ UNCHANGED << fs, laddoo, output_file, notified, processed_codes, count,
                    last_count, resume, work_queue, result_queue, stop_event,
                    auto_stop, checkpoint_lock, pc, gcode, hpc, apc, sv, wcode, enq,
                    probes, wmatched, shutdown, run_saves, final_saved, exit_code, ck,
                    loaded_codes, wraised, pr, ty, ut, counter_lock, sink, gl, cn,
                    wtimeouts >>

\* the steps of worker w
WorkerStep(w) ==
    \/ WorkerGet(w)
    \/ WorkerBlock(w)
    \/ WorkerWake(w)
    \/ WorkerTimeout(w)
    \/ WorkerCount(w)
    \/ WorkerProbe(w)
    \/ WorkerLeave(w)

NextWorkers ==
    \/ WkStart
    \/ \E c \in Codes : WkPut(c)
    \/ WkSetStop
    \/ \E w \in Workers : WorkerGet(w)
    \/ \E w \in Workers : WorkerBlock(w)
    \/ \E w \in Workers : WorkerWake(w)
    \/ \E w \in Workers : WorkerTimeout(w)
    \/ \E w \in Workers : WorkerCount(w)
    \/ \E w \in Workers : WorkerProbe(w)
    \/ \E w \in Workers : WorkerLeave(w)

\* every worker thread keeps being scheduled; a probe and a dequeue are bounded
\* by their timeouts
SpecWorkers ==
    /\ InitWorkers
    /\ [][NextWorkers]_vars
    /\ \A w \in Workers : WF_vars(WorkerStep(w))

(* ------------------------------------------------------------------ *)
(* A Counter alone, incremented by concurrent threads                   *)
(* ------------------------------------------------------------------ *)
\* calls of increment per thread, and the largest initial value
MaxIncrements == 2
MaxInitial == 1

\* Counter(initial): count = initial, lock = threading.Lock(); no call yet
InitCounter ==
    /\ Start(Absent, {})
    /\ ck = CkNone
    /\ pr = PrNone /\ ty = TyNone /\ ut = UtNone
    /\ sink = SinkNone /\ gl = GlNone /\ wtimeouts = NoTimeouts
    /\ \E initial \in 0..MaxInitial :
          cn = [ph |-> "run", initial |-> initial, count |-> initial, lock |-> 0,
                tpc |-> [t \in Callers |-> "idle"], tmp |-> [t \in Callers |-> 0],
                calls |-> [t \in Callers |-> 0], returns |-> <<>>]

\* a counter whose lock never makes a caller wait
CounterLockIgnored(lock) == TRUE

\* with self.lock: entered once no thread holds the lock
CounterLockFree(lock) == lock = 0

\* Counter.value(): with self.lock: return self.count
value(counter) == counter.count

\* a thread calls increment()
CnCall(t) ==
    /\ cn.ph = "run" /\ cn.tpc[t] = "idle"
    /\ cn.calls[t] < MaxIncrements
    /\ cn' = [cn EXCEPT !.tpc[t] = "wait", !.calls[t] = @ + 1]
    /\ UNCHANGED << fs, laddoo, output_file, notified, processed_codes, count,
                    last_count, resume, work_queue, result_queue, stop_event,
                    auto_stop, checkpoint_lock, pc, gcode, hpc, apc, sv, wpc, wcode,
                    enq, probes, wmatched, shutdown, run_saves, final_saved, exit_code,
                    ck, loaded_codes, wraised, pr, ty, ut, counter_lock, sink, gl,
                    wtimeouts >>

\* with self.lock:
CnAcquire(t) ==
    /\ cn.ph = "run" /\ cn.tpc[t] = "wait"
    /\ CounterLockFree(cn.lock)
    /\ cn' = [cn EXCEPT !.tpc[t] = "load", !.lock = t]
    /\ UNCHANGED << fs, laddoo, output_file, notified, processed_codes, count,
                    last_count, resume, work_queue, result_queue, stop_event,
                    auto_stop, checkpoint_lock, pc, gcode, hpc, apc, sv, wpc, wcode,
                    enq, probes, wmatched, shutdown, run_saves, final_saved, exit_code,
                    ck, loaded_codes, wraised, pr, ty, ut, counter_lock, sink, gl,
                    wtimeouts >>

\* self.count += 1: self.count is read
CnLoad(t) ==
    /\ cn.ph = "run" /\ cn.tpc[t] = "load"
    /\ cn' = [cn EXCEPT !.tpc[t] = "store", !.tmp[t] = cn.count]
    /\ UNCHANGED << fs, laddoo, output_file, notified, processed_codes, count,
                    last_count, resume, work_queue, result_queue, stop_event,
                    auto_stop, checkpoint_lock, pc, gcode, hpc, apc, sv, wpc, wcode,
                    enq, probes, wmatched, shutdown, run_saves, final_saved, exit_code,
                    ck, loaded_codes, wraised, pr, ty, ut, counter_lock, sink, gl,
                    wtimeouts >>

\* self.count += 1: the sum is stored
CnStore(t) ==
    /\ cn.ph = "run" /\ cn.tpc[t] = "store"
    /\ cn' = [cn EXCEPT !.tpc[t] = "ret", !.count = cn.tmp[t] + 1]
    /\ UNCHANGED << fs, laddoo, output_file, notified, processed_codes, count,
                    last_count, resume, work_queue, result_queue, stop_event,
                    auto_stop, checkpoint_lock, pc, gcode, hpc, apc, sv, wpc, wcode,
                    enq, probes, wmatched, shutdown, run_saves, final_saved, exit_code,
                    ck, loaded_codes, wraised, pr, ty, ut, counter_lock, sink, gl,
                    wtimeouts >>

\* return self.count; the with block is left and the lock is released
CnReturn(t) ==
    /\ cn.ph = "run" /\ cn.tpc[t] = "ret"
    /\ cn' = [cn EXCEPT !.tpc[t] = "idle", !.tmp[t] = 0,
                        !.returns = Append(@, cn.count),
                        !.lock = IF @ = t THEN 0 ELSE @]
    /\ UNCHANGED << fs, laddoo, output_file, notified, processed_codes, count,
                    last_count, resume, work_queue, result_queue, stop_event,
                    auto_stop, checkpoint_lock, pc, gcode, hpc, apc, sv, wpc, wcode,
                    enq, probes, wmatched, shutdown, run_saves, final_saved, exit_code,
                    ck, loaded_codes, wraised, pr, ty, ut, counter_lock, sink, gl,
                    wtimeouts >>

NextCounter ==
    \/ \E t \in Callers : CnCall(t)
    \/ \E t \in Callers : CnAcquire(t)
    \/ \E t \in Callers : CnLoad(t)
    \/ \E t \in Callers : CnStore(t)
    \/ \E t \in Callers : CnReturn(t)

SpecCounter == InitCounter /\ [][NextCounter]_vars

(* ------------------------------------------------------------------ *)
(* The locks of a run: counter.value() of a save's caller as steps of   *)
(* their own, Counter.lock being held between them                      *)
(* ------------------------------------------------------------------ *)
\* the thread a frame runs on: signal_handler runs on the main thread
ThreadOf(f) == IF f \in {"main", "handler"} THEN "MainThread" ELSE f

Threads == { ThreadOf(f) : f \in Frames }

\* the locks a thread holds; no code of the run takes UrlTracker.lock or
\* ResultWriter.file_lock
LocksHeld(thread) ==
    (IF checkpoint_lock \in Frames /\ ThreadOf(checkpoint_lock) = thread
     THEN {"checkpoint_lock"} ELSE {})
    \cup
    (IF counter_lock \in Frames /\ ThreadOf(counter_lock) = thread
     THEN {"Counter.lock"} ELSE {})

\* the caller of save_checkpoint evaluates counter.value(): with self.lock
StepValueAcquire(f) ==
    /\ Runs(f)
    /\ sv[f].pc = "call"
    /\ counter_lock = "free"
    /\ counter_lock' = f
    /\ sv' = [sv EXCEPT ![f].pc = "value"]
    /\ UNCHANGED << fs, laddoo, output_file, notified, processed_codes, count,
                    last_count, resume, work_queue, result_queue, stop_event,
                    auto_stop, checkpoint_lock, pc, gcode, hpc, apc, wpc, wcode, enq,
                    probes, wmatched, shutdown, run_saves, final_saved, exit_code, ck,
                    loaded_codes, wraised, pr, ty, ut, sink, gl, cn, wtimeouts >>

\* return self.count, Counter.lock is released; save_checkpoint is entered and
\* checkpoint_data is built from list(processed) and counter_value
StepValueReturn(f) ==
    /\ Runs(f)
    /\ sv[f].pc = "value"
    /\ counter_lock' = "free"
    /\ sv' = [sv EXCEPT ![f] = [pc |-> "lock", codes |-> ListOf(processed_codes),
                                counter |-> count]]
    /\ UNCHANGED << fs, laddoo, output_file, notified, processed_codes, count,
                    last_count, resume, work_queue, result_queue, stop_event,
                    auto_stop, checkpoint_lock, pc, gcode, hpc, apc, wpc, wcode, enq,
                    probes, wmatched, shutdown, run_saves, final_saved, exit_code, ck,
                    loaded_codes, wraised, pr, ty, ut, sink, gl, cn, wtimeouts >>

\* worker(): counter.increment() enters with self.lock
WorkerCountLocked(w) ==
    /\ counter_lock = "free"
    /\ WorkerCount(w)

(* ------------------------------------------------------------------ *)
(* load_checkpoint alone, on records of the old and the new format       *)
(* ------------------------------------------------------------------ *)
\* longest list stored under a key of the record
MaxStored == 1

\* a key of the record: absent, or present with a list / a number
NoField == [has |-> FALSE, s |-> <<>>, n |-> 0]
ListFields ==
    {NoField} \cup
    { [has |-> TRUE, s |-> l, n |-> 0] : l \in UNION { [1..k -> Codes] : k \in 0..MaxStored } }
NumFields ==
    {NoField} \cup { [has |-> TRUE, s |-> <<>>, n |-> n] : n \in 0..MaxCounter }

FieldTok(key, field) == IF field.has THEN << Tok(key, field.s, field.n) >> ELSE << >>

\* the JSON text of a record with the given keys
RecordOf(codes, counter, processed_codes_, processed_count) ==
    FileOf(<< Bracket("{") >> \o FieldTok("codes", codes) \o FieldTok("counter", counter)
           \o FieldTok("processed_codes", processed_codes_)
           \o FieldTok("processed_count", processed_count) \o << Bracket("}") >>)

\* a process starts on a checkpoint file that holds a record
InitLoad ==
    /\ \E codes \in ListFields, counter \in NumFields,
          old_codes \in ListFields, old_count \in NumFields :
          Start(RecordOf(codes, counter, old_codes, old_count), {})
    /\ ck = CkIdle(fs[CHECKPOINT_FILE])
    /\ Harness

NextLoad == CkLoad

SpecLoad == InitLoad /\ [][NextLoad]_vars

Next ==
    \/ Load
    \/ Prompts
    \/ TestSingle
    \/ SkipTest
    \/ Generate
    \/ \E due \in BOOLEAN : MarkSeen(due)
    \/ \E f \in Frames : StepSaveEnter(f)
    \/ \E f \in Frames : StepSaveWrite(f)
    \/ \E f \in Frames : StepSaveRename(f)
    \/ Signal
    \/ HandlerExit
    \/ Exit
    \/ AutoSaveDue
    \/ AutoSaveStop
    \/ \E w \in Workers : WorkerGet(w)
    \/ \E w \in Workers : WorkerCount(w)
    \/ \E w \in Workers : WorkerProbe(w)

\* the whole run
Spec == Init /\ [][Next]_vars

\* the probing pipeline: startup, the generation loop, the workers, the shutdown;
\* no periodic or automatic checkpoint save falls due
InitPool ==
    /\ \E file \in StartFiles, world \in {{}, {1}} : Start(file, world)
    /\ ck = CkNone
    /\ Harness

NextPool ==
    \/ Load
    \/ Prompts
    \/ TestSingle
    \/ SkipTest
    \/ Generate
    \/ MarkSeen(FALSE)
    \/ \E f \in Frames : StepSaveEnter(f)
    \/ \E f \in Frames : StepSaveWrite(f)
    \/ \E f \in Frames : StepSaveRename(f)
    \/ Signal
    \/ HandlerExit
    \/ Exit
    \/ AutoSaveStop
    \/ \E w \in Workers : WorkerGet(w)
    \/ \E w \in Workers : WorkerCount(w)
    \/ \E w \in Workers : WorkerProbe(w)

SpecPool == InitPool /\ [][NextPool]_vars

\* the checkpointing of a run: every save source and the shutdown, with a remote
\* endpoint that resolves no code to a Laddoo URL
InitRun ==
    /\ \E file \in StartFiles : Start(file, {})
    /\ ck = CkNone
    /\ Harness

SpecRun == InitRun /\ [][Next]_vars

\* the run with the steps of counter.value()
NextLocks ==
    \/ Load
    \/ Prompts
    \/ TestSingle
    \/ SkipTest
    \/ Generate
    \/ \E due \in BOOLEAN : MarkSeen(due)
    \/ \E f \in Frames : StepValueAcquire(f)
    \/ \E f \in Frames : StepValueReturn(f)
    \/ \E f \in Frames : StepSaveWrite(f)
    \/ \E f \in Frames : StepSaveRename(f)
    \/ Signal
    \/ HandlerExit
    \/ Exit
    \/ AutoSaveDue
    \/ AutoSaveStop
    \/ \E w \in Workers : WorkerGet(w)
    \/ \E w \in Workers : WorkerCountLocked(w)
    \/ \E w \in Workers : WorkerProbe(w)

SpecLocks == InitRun /\ [][NextLocks]_vars

(* ------------------------------------------------------------------ *)
(* Properties                                                          *)
(* ------------------------------------------------------------------ *)
Occurrences(seq, x) == Cardinality({ i \in 1..Len(seq) : seq[i] = x })

\* the counter of the record in a checkpoint file (0 if it holds no record)
StoredCounter(file) ==
    IF file.exists /\ ~JsonLoad(file.text).err /\ JsonLoad(file.text).isdict
    THEN GetNum(JsonLoad(file.text).items, "counter")
    ELSE 0

\* C1: within one run every match URL is appended to the output file at most
\* once and send_valid_link is called for it at most once
C1_MatchReportedOnce ==
    \A c \in Codes : Occurrences(output_file, c) <= 1 /\ Occurrences(notified, c) <= 1

\* C2: no candidate is probed twice in one run: each code is enqueued at most
\* once and passed to check_func by at most one worker, and no two workers hold
\* the same code
C2_NoCandidateProbedTwice ==
    /\ \A c \in Codes : enq[c] <= 1 /\ probes[c] <= 1
    /\ \A c \in Codes :
          Occurrences(work_queue, c)
            + Cardinality({ w \in Workers : wcode[w] = c }) + probes[c] = enq[c]

\* C2 witness: a resumed or fresh run in which two different codes were each
\* enqueued and probed by a worker
C2_Witness ==
    \E c, d \in Codes : c # d /\ probes[c] = 1 /\ probes[d] = 1

\* C3: a worker puts the URL of a probed candidate on the result queue if and
\* only if the probe found all required patterns
C3_MatchIsQueued ==
    \A c \in Codes : (c \in wmatched) <=> (Occurrences(result_queue, c) >= 1)

\* C4: a completed save_checkpoint(S, n) followed by load_checkpoint() returns
\* exactly S and n, whatever the file held before
C4_RoundTrip ==
    (ck.ph = "loaded" /\ ck.after = "saved")
        => ck.res = LoadResult(FALSE, ck.S, ck.n)

\* C4 witness: the round trip of the empty set and counter 0 over a file that
\* held an old-format record, and of a non-empty set
C4_Witness ==
    /\ ck.ph = "loaded" /\ ck.after = "saved"
    /\ ck.S = {} /\ ck.n = 0
    /\ ck.old.exists /\ Len(ck.old.text) = 4

\* C5: after a crash at any step of save_checkpoint the checkpoint file holds the
\* complete previous content or the complete new record, and load_checkpoint
\* returns what it returned before the save or the new record
C5_CrashAtomic ==
    (ck.ph = "crashed" \/ (ck.ph = "loaded" /\ ck.after = "crashed"))
        => /\ fs[CHECKPOINT_FILE] \in { ck.old, FileOf(JsonDump(ListOf(ck.S), ck.n)) }
           /\ load_checkpoint(fs[CHECKPOINT_FILE])
                 \in { load_checkpoint(ck.old), LoadResult(FALSE, ck.S, ck.n) }
           /\ (ck.ph = "loaded" => ck.res = load_checkpoint(fs[CHECKPOINT_FILE]))

\* C5 witness: a crash part way through the write of the temp file, over an
\* existing record
C5_Witness ==
    /\ ck.ph = "crashed"
    /\ fs[temp_file].exists
    /\ Len(fs[temp_file].text) \in 1..4
    /\ ck.old = FileOf(JsonDump(<<2>>, 1))

\* a checkpoint file that is unparsable or holds no record
Malformed(file) ==
    file.exists /\ (JsonLoad(file.text).err \/ ~JsonLoad(file.text).isdict)

\* C6: load_checkpoint never raises, and returns (empty set, 0) when the file is
\* absent or malformed
C6_LoadNeverRaises ==
    ck.ph = "loaded"
        => /\ ~ck.res.raised
           /\ (~fs[CHECKPOINT_FILE].exists \/ Malformed(fs[CHECKPOINT_FILE]))
                 => (ck.res.codes = {} /\ ck.res.count = 0)

\* C6 witness: a load of a malformed file
C6_Witness ==
    ck.ph = "loaded" /\ Malformed(fs[CHECKPOINT_FILE])

\* C7: once a signal is delivered the run goes on to a completed final save and
\* exit code 0: until then some thread can always take a step
C7_SignalLeadsToExit ==
    shutdown.seen => ((final_saved /\ exit_code = 0) \/ ENABLED Next)

\* C8: the final save happens after the worker stop flag was set
C8_StopFlagBeforeFinalSave ==
    final_saved => stop_event

\* C9: at exit the counter of the final checkpoint equals the number of
\* candidates dequeued before the shutdown (added to the loaded count when the
\* run resumed), up to the number of in-flight items at the shutdown
C9_FinalCounterIsDequeued ==
    exit_code = 0 =>
        LET stored == StoredCounter(fs[CHECKPOINT_FILE])
            base == IF resume THEN last_count ELSE 0
            want == base + shutdown.dequeued
        IN  /\ stored - want <= shutdown.inflight
            /\ want - stored <= shutdown.inflight

\* C10: the counter in the checkpoint file never decreases from one completed
\* save of the run to the next
C10_SavedCounterMonotone ==
    [][run_saves => StoredCounter(fs'[CHECKPOINT_FILE]) >= StoredCounter(fs[CHECKPOINT_FILE])]_vars

\* C11: the saves of different threads are serialized by checkpoint_lock: at most
\* one frame is between opening the temp file and completing the rename, it is
\* the holder of the lock, and the temp file holds the data of that save alone
C11_SavesSerialized ==
    /\ Cardinality({ f \in Frames : sv[f].pc = "written" }) <= 1
    /\ \A f \in Frames : sv[f].pc = "written" =>
           /\ checkpoint_lock = f
           /\ fs[temp_file] = FileOf(JsonDump(sv[f].codes, sv[f].counter))
    /\ (\A f \in Frames : sv[f].pc # "written") => ~fs[temp_file].exists

\* the auto-save thread is inside the locked section while the main thread's
\* periodic save waits for the lock
C11_Witness ==
    /\ sv["auto"].pc = "written"
    /\ sv["main"].pc = "lock"
    /\ pc = "save"

\* C12: in a resumed run no candidate of the loaded checkpoint's seen-set is
\* enqueued by the generation loop or dequeued and probed by a worker
C12_ResumeSkipsLoaded ==
    resume =>
        \A c \in loaded_codes :
            /\ enq[c] = 0
            /\ probes[c] = 0
            /\ Occurrences(work_queue, c) = 0
            /\ \A w \in Workers : wcode[w] # c

\* a resumed run whose loaded set is {1} has enqueued and probed code 2
C12_Witness ==
    /\ resume
    /\ loaded_codes = {1}
    /\ probes[2] = 1

\* C13: when the run resumes, the counter starts at the count stored in the
\* checkpoint and the seen-set is the stored set (no candidate has been
\* generated or dequeued yet while main() is at the test prompt)
C13_ResumeRehydratesCounter ==
    (resume /\ pc = "test") =>
        /\ count = last_count
        /\ processed_codes = loaded_codes

\* C14: no outcome of a candidate ends a worker: a worker leaves its loop only
\* when the stop flag is set, and after every probe it is back at the head of
\* its loop
C14_WorkerSurvivesCandidate ==
    /\ \A w \in Workers : wpc[w] = "done" => stop_event
    /\ \A w \in Workers : wraised[w] => wpc[w] \in {"idle", "got", "probe"}

\* a worker whose last candidate raised in the loop body has dequeued the next
C14_Witness ==
    \E w \in Workers : wraised[w] /\ wpc[w] = "got" /\ ~stop_event
\* the status check let the candidate through: a status in [200, 400) arrived
StatusInRange ==
    pr.r1.kind = "ok" /\ pr.r1.status >= 200 /\ pr.r1.status < 400

\* the patterns that occur in the raw URL or in its once-decoded form
Occurring(url) ==
    { pattern \in LADDOO_PATTERNS :
        \/ Contains(url, PatternText(pattern))
        \/ Contains([i \in 1..Len(url) |-> UnquotePiece(url[i])], PatternText(pattern)) }

\* C15: for both backends a transport error in either phase (timeout, failed
\* connection, status text that is no integer) gives a result whose first
\* component is False, and nothing is written or notified for the candidate
C15_TransportErrorIsNoMatch ==
    (/\ pr.ph \in {"returned", "done"}
     /\ \/ pr.r1.kind # "ok"
        \/ StatusInRange /\ pr.kind # "ok")
    => (~pr.res.valid /\ ~pr.res.saved /\ ~pr.res.notify)

\* C16: the redirect-following request is made only after a status in
\* [200, 400); a status outside it gives an invalid result without a second
\* request, a file write or a notification
C16_SecondRequestAfterStatus ==
    pr.ph \in {"returned", "done"} =>
        /\ pr.res.second => StatusInRange
        /\ (pr.r1.kind = "ok" /\ ~StatusInRange) =>
              (~pr.res.valid /\ ~pr.res.second /\ ~pr.res.saved /\ ~pr.res.notify)

\* the status 400 arrived for a candidate whose URL would hold every pattern
C16_Witness ==
    /\ pr.ph = "done"
    /\ pr.r1 = [kind |-> "ok", status |-> 400]
    /\ pr.kind = "ok"
    /\ Occurring(pr.final_url) = LADDOO_PATTERNS
    /\ ~pr.res.second

\* C17: for a resolved URL the verdict is true iff every pattern occurs in the
\* raw URL or in its once-decoded form, and a pattern that occurs in neither
\* is listed as missing
C17_VerdictIffAllPatterns ==
    (pr.ph \in {"returned", "done"} /\ StatusInRange /\ pr.kind = "ok") =>
        /\ pr.res.valid <=> (Occurring(pr.final_url) = LADDOO_PATTERNS)
        /\ pr.res.missing = LADDOO_PATTERNS \ Occurring(pr.final_url)

\* a match whose second pattern occurs in the decoded form only
C17_Witness ==
    /\ pr.ph = "done" /\ StatusInRange /\ pr.kind = "ok"
    /\ pr.res.valid
    /\ ~Contains(pr.final_url, PatternText("socialTitle=Psst"))

\* C18: a partial match (some but not all patterns) is never written, notified
\* or put on the result queue, and the first component of its result is False
C18_PartialMatchIsNoMatch ==
    (/\ pr.ph \in {"returned", "done"}
     /\ Occurring(pr.final_url) # {}
     /\ Occurring(pr.final_url) # LADDOO_PATTERNS)
    => (~pr.res.valid /\ ~pr.res.saved /\ ~pr.res.notify /\ ~pr.queued)

\* the requests backend has analysed a URL that holds two of the three patterns
C18_Witness ==
    /\ pr.ph = "done"
    /\ ~pr.use_curl
    /\ pr.res.second /\ pr.kind = "ok"
    /\ Cardinality(Occurring(pr.final_url)) = 2
\* the positions in LADDOO_TYPES of the labels that occur, case-insensitively,
\* in the url
LabelsIn(url) ==
    { k \in 1..Len(LADDOO_TYPES) :
        \E i \in 1..Len(url) : LowerPiece(url[i]) = LowerPiece(LADDOO_TYPES[k]) }

\* C19: extract_laddoo_type returns the first label, in the order of
\* LADDOO_TYPES, that occurs case-insensitively in the url, whatever the
\* positions of the labels in the url, and "Other" when no label occurs
C19_FirstLabelInListOrder ==
    ty.ph = "done" =>
        IF LabelsIn(ty.url) = {} THEN ty.res = "Other"
        ELSE \E k \in LabelsIn(ty.url) :
                /\ \A n \in LabelsIn(ty.url) : k <= n
                /\ ty.res = LADDOO_TYPES[k]

\* a url where a later label of the list comes before an earlier one, in another
\* spelling than the list's
C19_Witness ==
    /\ ty.ph = "done"
    /\ ty.url = << "wALLY", "Psst", "ZEN" >>
    /\ ty.res = "Zen"
\* C20: mark_processed is an atomic test-and-insert: over every interleaving of
\* concurrent calls, for each key one call returns True (the first to take the
\* lock) and every other call returns False, and the tracked set only grows
C20_MarkProcessedAtomic ==
    /\ [](\A k \in Keys :
            /\ ut.trues[k] <= 1
            /\ (ut.trues[k] = 1) <=> (k \in ut.processed_urls)
            /\ ut.falses[k] >= 1 => ut.trues[k] = 1)
    /\ [][ut.processed_urls \subseteq ut'.processed_urls]_vars

\* two threads are in mark_processed with the same key: one has been answered
\* True and still holds the lock, the other waits for it
C20_Witness ==
    \E t, u \in Callers :
        /\ t # u
        /\ ut.url[t] = ut.url[u] /\ ut.url[t] \in Keys
        /\ ut.tpc[t] = "ret" /\ ut.lock = t /\ ut.trues[ut.url[t]] = 1
        /\ ut.tpc[u] = "wait"

\* C21: the ResultWriter runs until the stop sentinel is submitted: when its
\* thread has exited, stop() has been called, and every URL put on the result
\* queue before stop() is in the output file
C21_WriterRunsUntilSentinel ==
    sink.wpc = "exited" =>
        /\ sink.stopping
        /\ \A c \in sink.submitted : Occurrences(sink.lines, c) >= 1

\* C22: appends to the output file are serialized: at most one thread at a time
\* is between opening the file for append and closing it, and the lines already
\* in the file are never removed or rewritten
C22_AppendsSerialized ==
    /\ [](Cardinality(sink.open) <= 1)
    /\ [][/\ Len(sink'.lines) >= Len(sink.lines)
          /\ SubSeq(sink'.lines, 1, Len(sink.lines)) = sink.lines]_vars

\* C23: the generation loop backs off instead of blocking: no enqueue blocks
\* on a full queue and the queue length never reaches its capacity, whatever
\* the speed of the workers
C23_BackoffNeverBlocks ==
    /\ gl.pc # "blocked"
    /\ gl.qlen < QueueCapacity

\* the inputs of the probe make a confirmed match: the status check passed, the
\* redirect-following request resolved a URL, every pattern occurs in it
ConfirmedMatch ==
    /\ StatusInRange
    /\ pr.kind = "ok"
    /\ Occurring(pr.final_url) = LADDOO_PATTERNS

\* C24: a notification failure does not affect the probe: for a confirmed match
\* the line is appended before the notification is attempted, and whether
\* send_valid_link returns True, returns False or raises, the probe returns a
\* success result
C24_NotificationFailureHarmless ==
    (pr.ph \in {"returned", "done"} /\ ConfirmedMatch) =>
        /\ pr.res.valid
        /\ pr.res.arity = 6
        /\ pr.res.saved
        /\ pr.res.effects = << "append", "notify" >>

\* send_valid_link raised for a confirmed match
C24_Witness ==
    /\ pr.ph = "done"
    /\ ConfirmedMatch
    /\ pr.tg = "raises"
    /\ pr.res.valid

\* C25: the two backends are observationally equivalent: with the same status
\* (or transport error) of the status check and the same resolved URL they
\* return the same verdict, found patterns and category and make the same
\* append and the same notification
C25_BackendsEquivalent ==
    (pr.ph \in {"returned", "done", "later", "again"} /\ pr.kind = "ok") =>
        pr.res = check_func(~pr.use_curl, pr.r1, UrlReply(pr), pr.tg)

\* a confirmed match of category Zen probed with the curl backend
C25_Witness ==
    /\ pr.ph = "done"
    /\ pr.use_curl
    /\ ConfirmedMatch
    /\ pr.res.valid
    /\ pr.res.laddoo_type = "Zen"

C26_WorkersTerminate ==
    /\ [](\A w \in Workers : wtimeouts[w] <= 1)
    /\ [][\A w \in Workers :
            /\ (stop_event /\ wpc[w] # "probe") => wpc'[w] # "probe"
            /\ (wpc[w] = "probe" /\ wpc'[w] # "probe") =>
                   /\ probes'[wcode[w]] = probes[wcode[w]] + 1
                   /\ wpc'[w] = "idle"]_vars
    /\ (stop_event ~> (\A w \in Workers : wpc[w] = "done"))

\* the flag was set, a worker left after one dequeue timeout, a probe was made,
\* and every worker has terminated
C26_Witness ==
    /\ stop_event
    /\ \A w \in Workers : wpc[w] = "done"
    /\ \E w \in Workers : wtimeouts[w] = 1
    /\ \E c \in Codes : probes[c] = 1

\* C27: a save_checkpoint that meets an I/O error at the write of the temp file or
\* at the rename returns False, leaves the in-memory seen-set and counter and the
\* canonical checkpoint file as they were, and releases checkpoint_lock: a later
\* save finds the lock free
C27_FailedSaveAbortsOnlyItself ==
    /\ ck.ph = "failed" =>
          /\ ck.ret = "False"
          /\ processed_codes = ck.S /\ count = ck.n
          /\ fs[CHECKPOINT_FILE] = ck.old
          /\ checkpoint_lock = "free"
    /\ (ck.ph = "saving" /\ ck.ret = "False" /\ sv["main"].pc = "lock")
          => CanAcquire(checkpoint_lock)

\* the save that follows a failed save over an existing record has taken the lock
\* and written its temp file
C27_Witness ==
    /\ ck.ph = "saving" /\ ck.ret = "False"
    /\ sv["main"].pc = "written" /\ checkpoint_lock = "main"
    /\ ck.old.exists
    /\ fs[CHECKPOINT_FILE] = ck.old
    /\ fs[temp_file] = FileOf(JsonDump(ListOf(ck.S), ck.n))

\* C29: the counter loses no update: when k increment calls of concurrent threads
\* have returned and none is under way, value() is the initial value plus k, and
\* the k returned values are the pairwise distinct values initial+1 .. initial+k;
\* at any time no value is returned twice
C29_NoLostUpdate ==
    LET k == Len(cn.returns) IN
    /\ \A i, j \in 1..k : i # j => cn.returns[i] # cn.returns[j]
    /\ (\A t \in Callers : cn.tpc[t] = "idle") =>
          /\ value(cn) = cn.initial + k
          /\ { cn.returns[i] : i \in 1..k } = (cn.initial + 1)..(cn.initial + k)

\* every thread has made all its calls on a counter created with initial value 1
C29_Witness ==
    /\ \A t \in Callers : cn.tpc[t] = "idle" /\ cn.calls[t] = MaxIncrements
    /\ cn.initial = 1
    /\ value(cn) = 1 + NumWorkers * MaxIncrements
    /\ \E i \in 1..(Len(cn.returns) - 1) : cn.returns[i + 1] = cn.returns[i] + 1

\* C30: no thread holds more than one of Counter.lock, UrlTracker.lock,
\* ResultWriter.file_lock and checkpoint_lock at the same time
C30_OneLockPerThread ==
    \A thread \in Threads : Cardinality(LocksHeld(thread)) <= 1

\* C31: every candidate a worker has dequeued is in the in-memory seen-set
\* processed_codes at the moment of the dequeue (the seen-set only grows while
\* the worker holds the candidate, so the candidate is in it as long as it is held)
C31_DequeuedIsSeen ==
    \A w \in Workers : wpc[w] = "got" => wcode[w] \in processed_codes

\* the value the counter handed to the workers was created with:
\* Counter(len(processed_codes)) on a resumed run, Counter(0) otherwise
InitialCount == IF resume THEN Cardinality(loaded_codes) ELSE 0

\* probe attempts started by workers in this run: completed ones and those under way
ProbesStarted ==
    SumOver(probes, Codes) + Cardinality({ w \in Workers : wpc[w] = "probe" })

\* C32: once the workers run, the counter minus its initial value is the number
\* of probe attempts started by workers: one increment per dequeued candidate,
\* made before its probe; a candidate dequeued after the stop flag was set is
\* dropped, neither counted nor probed
C32_CounterIsProbesStarted ==
    /\ []((\A w \in Workers : wpc[w] # "off") => count - InitialCount = ProbesStarted)
    /\ [][\A w \in Workers :
            /\ (wpc[w] = "got" /\ wpc'[w] = "probe") =>
                   (~stop_event /\ count' = count + 1)
            /\ (wpc[w] = "got" /\ stop_event /\ wpc'[w] # "got") =>
                   /\ wpc'[w] = "done"
                   /\ count' = count
                   /\ probes'[wcode[w]] = probes[wcode[w]]
          ]_vars

\* one candidate was counted and probed, another was dequeued after the stop flag
\* was set and dropped
C32_Witness ==
    /\ stop_event
    /\ count = 1 /\ ProbesStarted = 1
    /\ \E w \in Workers :
          wpc[w] = "done" /\ wcode[w] \in Codes /\ probes[wcode[w]] = 0

\* the distinct elements of a sequence, in order of first occurrence
RECURSIVE FirstOccurrences(_)
FirstOccurrences(seq) ==
    IF seq = << >> THEN << >>
    ELSE LET front == FirstOccurrences(SubSeq(seq, 1, Len(seq) - 1))
             last == seq[Len(seq)]
         IN  IF \E i \in 1..Len(front) : front[i] = last THEN front
             ELSE Append(front, last)

\* C33: for URLs put on the result queue before the sentinel with no idle gap,
\* the ResultWriter has appended, when it ends, each distinct URL exactly once in
\* order of first occurrence, a repeated URL being dropped; its pending batch is
\* empty after every flush
C33_WriterAppendsDistinctOnce ==
    /\ (sink.wpc = "exited" /\ ~sink.idle) =>
          sink.written = FirstOccurrences(sink.puts)
    /\ sink.wpc \in {"loop", "get", "got", "exited"} => sink.batch = << >>

\* the parsed record of the checkpoint file
Record == JsonLoad(fs[CHECKPOINT_FILE].text).items

\* C34: load_checkpoint accepts both record formats: when "codes" is absent or an
\* empty list it returns the list of "processed_codes", when "counter" is absent
\* or zero it returns the number of "processed_count"; when "codes" is a
\* non-empty list and "counter" is non-zero the old-format keys are ignored
C34_BothFormatsAccepted ==
    ck.ph = "loaded" =>
        /\ GetList(Record, "codes") = << >> =>
              ck.res.codes = SetOf(GetList(Record, "processed_codes"))
        /\ GetNum(Record, "counter") = 0 =>
              ck.res.count = GetNum(Record, "processed_count")
        /\ (GetList(Record, "codes") # << >> /\ GetNum(Record, "counter") # 0) =>
              /\ ck.res.codes = SetOf(GetList(Record, "codes"))
              /\ ck.res.count = GetNum(Record, "counter")

\* a record with an empty "codes" list, no "counter" and both old-format keys has
\* been loaded
C34_Witness ==
    /\ ck.ph = "loaded"
    /\ HasKey(Record, "codes") /\ GetList(Record, "codes") = << >>
    /\ ~HasKey(Record, "counter")
    /\ ck.res.codes = {2} /\ ck.res.count = 1
====
